---------------------------- MODULE Spec2Model ----------------------------
(***************************************************************************)
(* Stock-check and checkout state machine of FairGame.                     *)
(*                                                                         *)
(*   stores/amazon2.py      Amazon: run, run_asins, check_stock,           *)
(*                          buy_it_now, navigate_pages and its handlers    *)
(*   stores/amazon_ajax.py  AmazonStoreHandler: run (hunt loop)            *)
(*                                                                         *)
(* A call self.f(...) of a name f that none of Amazon, SeleniumStore and  *)
(* BaseStore defines ends in AttributeError (create_driver, send).  The    *)
(* deadline helper is the exception: self.get_timeout(t) is read as the    *)
(* module-level get_timeout of selenium_store.py (line 27), and run is     *)
(* modelled from line 223 on, past its own create_driver call (line 184).  *)
(*                                                                         *)
(* Money is counted in cents.  A string is modelled as the sequence of its *)
(* whitespace-separated words, so that str.split() is the identity on the  *)
(* representation and a full name of two words differs from its first word.*)
(***************************************************************************)
EXTENDS Integers, Sequences, FiniteSets, TLC

VARIABLES
    \* ---- Amazon.check_stock (offer evaluation loop) ----
    offers,          \* the offers of the loaded page, in display order
    check_shipping,  \* self.check_shipping
    condition,       \* self.condition.value (worst acceptable condition)
    buy_box,         \* local buy_box: the page only shows the Buy Box
    cs_reserve_min,  \* argument reserve_min (cents)
    cs_reserve_max,  \* argument reserve_max (cents)
    idx,             \* loop index of "for idx, atc_button in enumerate(...)"
    verdicts,        \* what the loop decided for offers[1..idx-1]
    in_stock,        \* local in_stock
    cs_pc,           \* "idle" | "load" | "offers" | "returned" | "raised"
    cs_result,       \* return value of check_stock
    fail_counter,    \* local fail_counter of the page-load loop
    load_attempts,   \* self.get_page calls made by this check_stock call
    delays,          \* time.sleep(3) calls made by the page-load loop
    recycle,         \* the calls of the driver recycle and how each ended
    cs_error,        \* the exception check_stock raised ("none" if none)
    cs_notes,        \* notifications sent by the page-load loop
    prices_len,      \* len(prices): price nodes found on the page
    shipping_len,    \* len(shipping_prices): offer containers found
    sellers_len,     \* len(sellers): add-to-cart inputs with an aria-label
    \* ---- get_shipping_costs / get_alt_shipping_costs ----
    ship_tree,       \* argument tree: the shipping markup of one offer
    ship_cost,       \* the Price returned (amount in cents, -1 = None)
    ship_pc,         \* "idle" | "call" | "done" | the exception raised
    \* ---- Amazon.handle_captcha ----
    cap_wait,            \* self.wait_on_captcha_fail
    cap_check_presence,  \* argument check_presence
    cap_detailed,        \* self.detailed
    cap_page,            \* the captcha page: form, image, solver's answer, field
    cap_result,          \* value returned: "None" | "True" | "False"
    cap_refreshes,       \* self.driver.refresh() calls made
    cap_waited,          \* the 60 second wait for a title change was entered
    cap_notes,           \* notifications sent by handle_captcha
    cap_pc,              \* "idle" | "call" | "returned"
    \* ---- AmazonStoreHandler.run (hybrid handler hunt loop) ----
    item_list,            \* self.item_list: sequence of FGItem
    st_pc,                \* "idle" | "scan" | "pass_end" | "done"
    st_pos,               \* position of the "for item in self.item_list" scan
    group_id_to_remove,   \* local group_id_to_remove (0 = None)
    list_before,          \* item_list when the last removal step started
    removed_group,        \* group_id the last removal step was run for (0 = none)
    fq_item,              \* find_qualified_seller: argument item
    fq_sellers,           \* item_sellers, the list get_item_sellers returned
    fq_check_shipping,    \* self.check_shipping of the hybrid handler
    fq_result,            \* value returned: <<>> for None, <<seller>> otherwise
    fq_purchase,          \* sellers attempt_purchase was called with
    fq_pc,                \* "idle" | "call" | "done"
    \* ---- Amazon.run (browser-driven handler) ----
    asin_list,       \* self.asin_list: sequence of ASIN groups
    reserve_min,     \* self.reserve_min
    reserve_max,     \* self.reserve_max
    alt_checkout,    \* self.alt_checkout
    single_shot,     \* self.single_shot
    testing,         \* self.testing / test
    pc,              \* "idle" | "run_asins" | "buy_it_now" | "checkout" | "twofa" |
                     \* "done" | "raised" | "exited"
    asin,            \* the ASIN run_asins returned (0 = none)
    try_to_checkout, \* self.try_to_checkout
    checkout_retry,  \* self.checkout_retry
    order_retry,     \* self.order_retry
    loop_iterations, \* local loop_iterations
    great_success,   \* self.great_success
    bin_retry,       \* buy_it_now: local retry
    sold_by,         \* buy_it_now: local sold_by ("unset" until assigned)
    nav_calls,       \* navigate_pages calls begun in the current attempt
    order_placed,    \* Place Order was clicked and the order-complete page came
    removed_log,     \* one entry per removal from asin_list, oldest first
    notes,           \* purchase notifications and sounds of the last navigate_pages call
    \* ---- one call of a helper, studied on its own ----
    call_args,       \* the arguments and what the environment answers
    call_steps,      \* what the call did, oldest first, or its locals
    call_result,     \* what the call returned, or the exception it raised
    call_pc          \* "idle" | "call" | "done"

loadVars  == <<fail_counter, load_attempts, delays, recycle, cs_error,
               cs_notes>>
shipVars  == <<ship_tree, ship_cost, ship_pc>>
captchaVars == <<cap_wait, cap_check_presence, cap_detailed, cap_page,
                 cap_result, cap_refreshes, cap_waited, cap_notes, cap_pc>>
listVars  == <<prices_len, shipping_len, sellers_len>>
stockVars == <<offers, check_shipping, condition, buy_box, cs_reserve_min,
               cs_reserve_max, idx, verdicts, in_stock, cs_pc, cs_result,
               loadVars, listVars, shipVars, captchaVars>>
qualVars  == <<fq_item, fq_sellers, fq_check_shipping, fq_result, fq_purchase,
               fq_pc>>
storeVars == <<item_list, st_pc, st_pos, group_id_to_remove, list_before,
               removed_group, qualVars>>
runVars   == <<asin_list, reserve_min, reserve_max, alt_checkout, single_shot,
               testing, pc, asin, try_to_checkout,
               checkout_retry, order_retry, loop_iterations, great_success,
               bin_retry, sold_by, nav_calls, order_placed, removed_log, notes>>
callVars  == <<call_args, call_steps, call_result, call_pc>>
vars == <<stockVars, storeVars, runVars, callVars>>

-----------------------------------------------------------------------------
(* Bounds of the model *)

\* words in a condition label
MaxWords == 3
\* seconds of a purchase attempt that are followed
MaxSeconds == 300

\* most offers on one page in the list-level specification
MaxOffers == 2
\* most items of the hybrid handler's hunt list
MaxItems == 4
\* most ASINs configured for the browser-driven handler
MaxAsins == 2
MaxSpans == 2
MaxSellers == 2

-----------------------------------------------------------------------------
(* Program constants *)

DEFAULT_MAX_CHECKOUT_LOOPS == 30
DEFAULT_MAX_PTC_TRIES == 3
DEFAULT_MAX_PYO_TRIES == 3
\* max_atc_retries of the buy_it_now call in check_stock
BIN_MAX_RETRIES == 2
DEFAULT_MAX_URL_FAIL == 5
DEFAULT_MAX_ATC_TRIES == 10
\* amazon_ajax.py
MAXIMUM_RETRY_TIME == 120

AmazonItemCondition ==
    [New |-> 10, Renewed |-> 20, Refurbished |-> 20, Rental |-> 30,
     Open_box |-> 40, UsedLikeNew |-> 40, UsedVeryGood |-> 50,
     UsedGood |-> 60, UsedAcceptable |-> 70, CollectibleLikeNew |-> 40,
     CollectibleVeryGood |-> 50, CollectibleGood |-> 60,
     CollectibleAcceptable |-> 70, Unknown |-> 1000]

-----------------------------------------------------------------------------
(* Binary floating point, as far as math.isclose and the mixed              *)
(* Decimal/float comparisons of check_stock need it.                        *)
(*                                                                          *)
(* An amount of c cents is the decimal c/100.  Its double is                *)
(*     dbl(c) = (c * 2^e + RoundErr(c)) / (100 * 2^e),  e = BinExp(c),      *)
(* where 2^52 <= dbl(c) * 2^e < 2^53 and RoundErr(c) is the signed rounding *)
(* error of round-to-nearest in units of 1/(100 * 2^e), |RoundErr(c)| <= 50.*)
(* Only (c * 2^e) mod 100 is needed for it, which stays small.  A tie       *)
(* (remainder 50) cannot occur: e >= 6 makes c * 2^e a multiple of 4.       *)

RECURSIVE Pow2(_)
Pow2(n) == IF n = 0 THEN 1 ELSE 2 * Pow2(n - 1)

RECURSIVE PowMod100(_)
PowMod100(n) == IF n = 0 THEN 1 ELSE (2 * PowMod100(n - 1)) % 100

\* the k >= 0 with 100 * 2^k <= c < 100 * 2^(k+1), for c >= 100
RECURSIVE Log2Dollars(_)
Log2Dollars(c) == IF c < 200 THEN 0 ELSE 1 + Log2Dollars(c \div 2)

\* the j >= 1 with 100 <= c * 2^j < 200, for 1 <= c < 100
RECURSIVE ShiftUp(_)
ShiftUp(c) == IF c >= 100 THEN 0 ELSE 1 + ShiftUp(2 * c)

BinExp(c) == IF c >= 100 THEN 52 - Log2Dollars(c) ELSE 52 + ShiftUp(c)

RoundErr(c) ==
    IF c = 0 THEN 0
    ELSE LET r == ((c % 100) * PowMod100(BinExp(c))) % 100
         IN  IF r < 50 THEN 0 - r ELSE 100 - r

\* Decimal(t/100) <= float m/100 and >=: Python compares the two exactly.
\* (t - m) * 2^e <= RoundErr(m), and 2^e exceeds every rounding error.
DecimalLeqFloat(t, m) == t < m \/ (t = m /\ RoundErr(m) >= 0)
DecimalGeqFloat(t, m) == t > m \/ (t = m /\ RoundErr(m) <= 0)

\* math.isclose(Decimal(t/100), m/100, abs_tol=0.01): both become doubles,
\* diff = fabs(b - a), result = diff <= rel_tol*|b| or diff <= rel_tol*|a|
\* or diff <= abs_tol with rel_tol = 1e-09.  For amounts from 1.00 to a few
\* hundred, rel_tol * |x| < 1e-06, so two distinct amounts are close only by
\* abs_tol.  Amounts 0.02 or more apart have diff > dbl(0.01).  Amounts 0.01
\* apart: b - a is exact (Sterbenz), and with hi = lo + 1
\*    diff = (2^el + RoundErr(hi) * 2^(el-eh) - RoundErr(lo)) / (100 * 2^el)
\*    tol  = (2^59 + RoundErr(1)) / (100 * 2^59)
IsClose(t, m) ==
    IF t = m THEN TRUE
    ELSE LET hi == IF t > m THEN t ELSE m
             lo == IF t > m THEN m ELSE t
             el == BinExp(lo)
             eh == BinExp(hi)
             D  == RoundErr(hi) * Pow2(el - eh) - RoundErr(lo)
         IN  IF hi - lo >= 2 THEN FALSE
             ELSE D * Pow2(BinExp(1) - el) <= RoundErr(1)

\* lines 767-779: the total is in the reserve range
PriceInRange(total, rmin, rmax) ==
    /\ DecimalLeqFloat(total, rmax) \/ IsClose(total, rmax)
    /\ DecimalGeqFloat(total, rmin) \/ IsClose(total, rmin)

-----------------------------------------------------------------------------
(* Amazon.check_stock: evaluation of the offers of a loaded page            *)

\* sellers[idx] is the aria-label of the offer's add-to-cart button:
\* "Add to Cart from seller <seller name> and price <price>"
AriaLabel(seller) ==
    <<"Add", "to", "Cart", "from", "seller">> \o seller \o <<"and", "price">>

\* seller_name = aria_label.split()[5]: one word, as a string
SellerName(o) == <<AriaLabel(o.seller)[6]>>

\* seller_name == "Amazon Resale" or == "Amazon" or == "Amazon.com"
SellerAccepted(name) ==
    \/ name = <<"Amazon", "Resale">>
    \/ name = <<"Amazon">>
    \/ name = <<"Amazon.com">>

get_item_condition(form_action) ==
    IF form_action = "_new_" THEN AmazonItemCondition.New
    ELSE IF form_action = "_used_" THEN AmazonItemCondition.UsedGood
    ELSE IF form_action = "_col_" THEN AmazonItemCondition.CollectibleGood
    ELSE AmazonItemCondition.Unknown

\* a shipping hurdle that also turns away the offers that ship for free
ShippingHurdleFailsAtZero(o, cship) == ~cship /\ o.ship >= 0

\* line 721: free-shipping-only mode skips an offer that has a shipping cost
ShippingHurdleFails(o, cship) == ~cship /\ o.ship > 0

\* a comparison that also turns away an offer exactly at the cap
ConditionBelowStandardAtCap(v, cap) == v >= cap

\* line 735: seller_item_condition.value > self.condition.value
ConditionBelowStandard(v, cap) == v > cap

\* lines 727-741: no check for a Buy Box offer or when no form is found
ConditionHurdleFails(o, bbox, cap) ==
    /\ ~bbox
    /\ o.form # "none"
    /\ ConditionBelowStandard(get_item_condition(o.form), cap)

\* one pass of the loop body up to the decision about the offer
EvalOffer(o, cship, bbox, cap, rmin, rmax) ==
    LET total == o.price + o.ship IN
    IF ShippingHurdleFails(o, cship) THEN "shipping"
    ELSE IF ConditionHurdleFails(o, bbox, cap) THEN "condition"
    ELSE IF ~o.has_price THEN "no_price"
    ELSE IF PriceInRange(total, rmin, rmax) /\ SellerAccepted(SellerName(o))
         THEN "qualified"
    ELSE IF ~DecimalGeqFloat(total, rmin) THEN "below_min"
    ELSE IF ~DecimalLeqFloat(total, rmax) THEN "above_max"
    ELSE IF ~SellerAccepted(SellerName(o)) THEN "seller"
    ELSE "problem"

\* What the purchase step of a qualified offer can end in (lines 796-881):
\*  the offering id cannot be read                     -> return False
\*  offering id found: buy_it_now / attempt_atc        -> return True or False
\*  offering id empty (legacy mode): click the button,
\*     item in the cart                                -> return True
\*     otherwise in_stock = check_stock(retry + 1), and the loop goes on
PurchaseOutcomes(o) ==
    IF o.oid = "error" THEN {"oid_error"}
    ELSE IF o.oid = "ok" THEN {"bought", "failed"}
    ELSE {"carted", "retry_true", "retry_false"}

\* The subscripts of the loop body for index i (1-based): offers, prices,
\* shipping costs and seller labels come from four separate page queries.
\*   line 721: shipping_prices[idx], evaluated only when not check_shipping
\*   lines 743-753: prices[idx], IndexError caught -> return False
\*   line 755: shipping_prices[idx];  line 758: sellers[idx]
\* An offer the shipping or condition hurdle skips reaches no later line.
Subscripts(i, o, cship, bbox, cap, np, nsh, nse) ==
    IF ~cship /\ i > nsh THEN "IndexError"
    ELSE IF ShippingHurdleFails(o, cship) \/ ConditionHurdleFails(o, bbox, cap)
    THEN "in_range"
    ELSE IF i > np THEN "price_index"
    ELSE IF i > nsh \/ i > nse THEN "IndexError"
    ELSE "in_range"

\* the loop body for offers[idx]
CheckStockOffer ==
    /\ cs_pc = "offers"
    /\ idx <= Len(offers)
    /\ LET o == offers[idx]
           x == Subscripts(idx, o, check_shipping, buy_box, condition,
                           prices_len, shipping_len, sellers_len)
           v == IF x = "in_range"
                THEN EvalOffer(o, check_shipping, buy_box, condition,
                               cs_reserve_min, cs_reserve_max)
                ELSE x
       IN  /\ verdicts' = Append(verdicts, v)
           /\ cs_error' = IF v = "IndexError" THEN "IndexError" ELSE cs_error
           /\ IF v = "IndexError"
              THEN /\ cs_pc' = "raised"
                   /\ UNCHANGED <<idx, in_stock, cs_result>>
              ELSE IF v \in {"no_price", "price_index"}
              THEN /\ cs_pc' = "returned"
                   /\ cs_result' = FALSE
                   /\ UNCHANGED <<idx, in_stock>>
              ELSE IF v = "qualified"
              THEN \E out \in PurchaseOutcomes(o) :
                     IF out \in {"retry_true", "retry_false"}
                     THEN /\ in_stock' = (out = "retry_true")
                          /\ idx' = idx + 1
                          /\ UNCHANGED <<cs_pc, cs_result>>
                     ELSE /\ cs_pc' = "returned"
                          /\ cs_result' = (out \in {"bought", "carted"})
                          /\ UNCHANGED <<idx, in_stock>>
              ELSE /\ idx' = idx + 1
                   /\ UNCHANGED <<cs_pc, cs_result, in_stock>>
    /\ UNCHANGED <<offers, check_shipping, condition, buy_box, cs_reserve_min,
                   cs_reserve_max, listVars, shipVars, captchaVars>>
    /\ UNCHANGED <<fail_counter, load_attempts, delays, recycle, cs_notes>>
    /\ UNCHANGED <<storeVars, runVars, callVars>>

\* lines 902-903: the loop ran out of offers
CheckStockReturn ==
    /\ cs_pc = "offers"
    /\ idx > Len(offers)
    /\ cs_pc' = "returned"
    /\ cs_result' = in_stock
    /\ UNCHANGED <<offers, check_shipping, condition, buy_box, cs_reserve_min,
                   cs_reserve_max, idx, verdicts, in_stock, loadVars,
                   listVars, shipVars, captchaVars>>
    /\ UNCHANGED <<storeVars, runVars, callVars>>

NextStock == CheckStockOffer \/ CheckStockReturn

\* the driver life-cycle methods an Amazon instance has: those of
\* SeleniumStore (selenium_store.py lines 53-133); Amazon and BaseStore
\* define none
DriverMethods ==
    {"create_drive", "get_driver", "configure_webdriver", "delete_driver"}

\* how a call self.<name>(...) of a driver method with a bool result ends
CallDriverMethod(name) ==
    IF name \in DriverMethods
    THEN {[call |-> name, ended |-> "True"], [call |-> name, ended |-> "False"]}
    ELSE {[call |-> name, ended |-> "AttributeError"]}

\* lines 465-491: the recycle after the DEFAULT_MAX_URL_FAIL-th failure.
\*   d: how self.delete_driver() ended; c: how self.create_driver(...) ended
\* (c is not called when delete_driver returned False)
Recycle(d, c) ==
    IF d.ended # "True"
    THEN /\ recycle' = <<d>>
         /\ cs_notes' = cs_notes \cup {"Bot Failed, please restart bot"}
         /\ cs_error' = "RuntimeError"
         /\ cs_pc' = "raised"
         /\ UNCHANGED cs_result
    ELSE IF c.ended = "AttributeError"
    THEN /\ recycle' = <<d, c>>
         /\ cs_error' = "AttributeError"
         /\ cs_pc' = "raised"
         /\ UNCHANGED <<cs_notes, cs_result>>
    ELSE IF c.ended # "True"
    THEN /\ recycle' = <<d, c>>
         /\ cs_notes' = cs_notes \cup {"Bot Failed, please restart bot"}
         /\ cs_error' = "RuntimeError"
         /\ cs_pc' = "raised"
         /\ UNCHANGED cs_result
    ELSE /\ recycle' = <<d, c>>
         /\ cs_pc' = "returned"
         /\ cs_result' = FALSE
         /\ UNCHANGED <<cs_notes, cs_error>>

\* get_page (lines 1675-1703): what the call gives check_stock when
\* driver.get ends as driver_get says.  "except WebDriverException or
\* TimeoutException" catches WebDriverException and its subclasses, logs and
\* returns False; otherwise the page change decides between True and False.
get_page(driver_get) ==
    IF driver_get = "WebDriverException"
    THEN [ended |-> {"False"}, log |-> {"get_page: Failed to load page at url"}]
    ELSE [ended |-> {"True", "False"}, log |-> {}]

\* one pass of the page-load loop (lines 448-491) and, when the page loads,
\* the waits for offers, prices and shipping (lines 493-714), which either
\* find them or return False
\*   load: driver.get raises inside get_page ("get_failed"); get_page and
\*         the captcha check end normally ("ok"); the element lookups of
\*         get_page or the captcha check raise ("exception")
\*   found: the offers, prices and shipping costs are found in time
\* check_stock does not read what get_page returns (line 450).
LoadPage ==
    /\ cs_pc = "load"
    /\ load_attempts' = load_attempts + 1
    /\ \E load \in {"ok", "get_failed", "exception"}, found \in BOOLEAN :
         IF load \in {"ok", "get_failed"}
         THEN /\ cs_pc' = IF found THEN "offers" ELSE "returned"
              /\ cs_result' = FALSE
              /\ cs_notes' = cs_notes \cup
                    get_page(IF load = "get_failed" THEN "WebDriverException"
                             ELSE "None").log
              /\ UNCHANGED <<fail_counter, delays, recycle, cs_error>>
         ELSE /\ ~found
              /\ fail_counter' = fail_counter + 1
              /\ IF fail_counter + 1 < DEFAULT_MAX_URL_FAIL
                 THEN /\ delays' = delays + 1
                      /\ UNCHANGED <<cs_pc, cs_result, recycle, cs_error,
                                     cs_notes>>
                 ELSE /\ UNCHANGED delays
                      /\ \E d \in CallDriverMethod("delete_driver"),
                            c \in CallDriverMethod("create_driver") :
                            Recycle(d, c)
    /\ UNCHANGED <<offers, check_shipping, condition, buy_box, cs_reserve_min,
                   cs_reserve_max, idx, verdicts, in_stock, listVars, shipVars,
                   captchaVars>>
    /\ UNCHANGED <<storeVars, runVars, callVars>>

NextLoad == LoadPage \/ CheckStockOffer \/ CheckStockReturn

\* seller names as the offer listing shows them
SellerNames ==
    {<<"Amazon">>, <<"Amazon.com">>, <<"Amazon", "Resale">>,
     <<"Amazon", "Warehouse">>, <<"ThirdPartyCo">>}

FormActions == {"none", "_new_", "_used_", "_col_", "other"}

\* one offer, every facet drawn from its whole set
OfferSet ==
    [seller : SellerNames,
     has_price : {TRUE},
     price : {9997, 9998, 9999, 10000, 10001, 10002, 10003, 11000},
     ship : {0, 1, 2},
     form : FormActions,
     oid : {"ok", "empty", "error"}]
    \cup
    [seller : SellerNames, has_price : {FALSE}, price : {0}, ship : {0, 1, 2},
     form : FormActions, oid : {"ok"}]

\* the offers of the list-level specification
SmallOfferSet ==
    [seller : {<<"Amazon">>, <<"Amazon", "Warehouse">>, <<"ThirdPartyCo">>},
     has_price : {TRUE},
     price : {11000, 11500},
     ship : {0, 500},
     form : {"_new_", "_used_"},
     oid : {"ok", "empty"}]
    \cup
    [seller : {<<"Amazon">>}, has_price : {FALSE}, price : {0}, ship : {0},
     form : {"_new_"}, oid : {"ok"}]

\* self.condition is UsedAcceptable with --used and New without (lines 161-164)
ConditionCaps == {AmazonItemCondition.UsedAcceptable, AmazonItemCondition.New}

-----------------------------------------------------------------------------
(* get_shipping_costs and get_alt_shipping_costs                            *)

\* A node text is one of these strings, none with outer whitespace (strip()
\* leaves them as they are); "absent" stands for text None.
NodeTexts ==
    {"absent", "", "FREE delivery", "$5.99", "+$5.99", "+ shipping", "+", "&",
     "see details"}

\* any(text.upper() in free_message for free_message in FREE_SHIPPING):
\* a substring test, which the empty string passes
InFreeMessage(t) == t \in {"", "FREE delivery"}

\* parse_price(re.sub(whitespace, "", text)): amount in cents (-1 = None)
\* and whether a currency symbol was found
parse_price(t) ==
    IF t \in {"$5.99", "+$5.99"} THEN [amount |-> 599, currency |-> TRUE]
    ELSE [amount |-> -1, currency |-> FALSE]

\* line 66: parse_price("0.00")
FREE_SHIPPING_PRICE == [amount |-> 0, currency |-> FALSE]

Returned(price) == [raised |-> "none", price |-> price]
Raised(e) == [raised |-> e, price |-> FREE_SHIPPING_PRICE]

\* lines 1907-1916: the first span of the div with a currency amount
RECURSIVE FirstPricedSpan(_)
FirstPricedSpan(spans) ==
    IF spans = <<>> THEN "none"
    ELSE IF /\ Head(spans) \notin {"absent", "", "+"}
            /\ parse_price(Head(spans)).currency
    THEN Head(spans)
    ELSE FirstPricedSpan(Tail(spans))

\* lines 1950-1957: the loop over the <b> children calls text.upper()
RECURSIVE BoldLoop(_)
BoldLoop(bs) ==
    IF bs = <<>> THEN Returned(FREE_SHIPPING_PRICE)
    ELSE IF Head(bs) = "absent" THEN Raised("AttributeError")
    ELSE BoldLoop(Tail(bs))

\* lines 1869-1974
get_alt_shipping_costs(tree) ==
    IF tree.alt_tag = "no_node" THEN Returned(FREE_SHIPPING_PRICE)
    ELSE IF tree.alt_tag = "div"
    THEN IF FirstPricedSpan(tree.spans) # "none"
         THEN Returned(parse_price(FirstPricedSpan(tree.spans)))
         ELSE Returned(FREE_SHIPPING_PRICE)
    ELSE IF tree.alt_tag = "span"
    THEN IF Len(tree.spans) > 0
         THEN IF tree.spans[1] = "absent" THEN Raised("AttributeError")
              ELSE IF tree.spans[1] = "&"
              THEN Returned(FREE_SHIPPING_PRICE)
              ELSE IF tree.spans[1] \in {"+$5.99", "+ shipping", "+"}
              THEN Returned(parse_price(tree.spans[1]))
              ELSE Returned(FREE_SHIPPING_PRICE)
         ELSE IF Len(tree.bs) > 0 THEN BoldLoop(tree.bs)
         ELSE Returned(FREE_SHIPPING_PRICE)
    ELSE Returned(FREE_SHIPPING_PRICE)

\* lines 1834-1866
get_shipping_costs(tree) ==
    IF tree.unified \notin {"no_node", "absent", ""}
    THEN IF InFreeMessage(tree.unified)
         THEN Returned(FREE_SHIPPING_PRICE)
         ELSE IF parse_price(tree.unified).currency
         THEN Returned(parse_price(tree.unified))
         ELSE get_alt_shipping_costs(tree)
    ELSE get_alt_shipping_costs(tree)

\* the shipping markup of one offer:
\*   unified: text of the unified delivery message span ("no_node": none)
\*   alt_tag: tag of the node after the bottling-deposit div; alt_text: its
\*   text; spans, bs: texts of its <span> and <b> children; icon: aria-label
\*   of an <i aria-label=...>
ShippingTrees ==
    [unified : {"no_node", "absent", "FREE delivery", "$5.99", "see details"},
     alt_tag : {"no_node", "div", "span", "p"},
     alt_text : {"absent", "FREE delivery", "see details"},
     spans : UNION {[1..n -> NodeTexts \ {""}] : n \in 0..MaxSpans},
     bs : UNION {[1..n -> {"absent", "FREE delivery", "see details"}] :
                    n \in 0..MaxSpans},
     icon : {"none", "FREE Prime delivery"}]

\* one call of get_shipping_costs(tree, free_shipping_string)
GetShippingCosts ==
    /\ ship_pc = "call"
    /\ LET r == get_shipping_costs(ship_tree)
       IN  /\ ship_pc' = IF r.raised = "none" THEN "done" ELSE r.raised
           /\ ship_cost' = r.price
    /\ UNCHANGED ship_tree
    /\ UNCHANGED <<offers, check_shipping, condition, buy_box, cs_reserve_min,
                   cs_reserve_max, idx, verdicts, in_stock, cs_pc, cs_result,
                   loadVars, listVars, captchaVars>>
    /\ UNCHANGED <<storeVars, runVars, callVars>>

\* get_shipping_costs is not running
ShipIdle ==
    /\ ship_tree = [unified |-> "no_node", alt_tag |-> "no_node",
                    alt_text |-> "absent", spans |-> <<>>, bs |-> <<>>,
                    icon |-> "none"]
    /\ ship_cost = FREE_SHIPPING_PRICE
    /\ ship_pc = "idle"

-----------------------------------------------------------------------------
(* Amazon.handle_captcha                                                    *)

\* the methods an Amazon instance inherits from SeleniumStore
\* (selenium_store.py lines 53-193); BaseStore adds run and show_config
SeleniumStoreMethods ==
    DriverMethods \cup
    {"save_screenshot", "save_page_source", "wait_for_page_content_change",
     "wait_for_page_change", "page_wait_delay", "send_notification"}

\* a captcha page as handle_captcha finds it
\*   form: the validateCaptcha form is there;  img: the page source holds
\*   an <img src="..."> to cut the captcha link from;  solution: what
\*   AmazonCaptcha.solve() returns;  field: the captchacharacters input
CaptchaPages ==
    [form : BOOLEAN, img : BOOLEAN, solution : {"Not solved", "KRJNBY"},
     field : BOOLEAN]

\* lines 1635-1640: except Exception: refresh and return False
CaptchaSolveError ==
    /\ cap_refreshes' = cap_refreshes + 1
    /\ cap_result' = "False"
    /\ UNCHANGED <<cap_waited, cap_notes>>

\* lines 1586-1614: the solver answered "Not solved"
\*   changed: the title changes within the 60 seconds of the wait
CaptchaNotSolved(changed) ==
    IF ~cap_wait
    THEN /\ cap_result' = "None"
         /\ UNCHANGED <<cap_refreshes, cap_waited, cap_notes>>
    ELSE IF "send" \notin SeleniumStoreMethods
    THEN CaptchaSolveError
    ELSE /\ cap_notes' = cap_notes \cup
                           {"User Intervention Required - captcha check"}
         /\ cap_waited' = TRUE
         /\ cap_refreshes' = IF changed THEN cap_refreshes
                             ELSE cap_refreshes + 1
         /\ cap_result' = IF changed THEN "True" ELSE "False"

\* lines 1616-1634: the solver gave an answer
CaptchaSolved ==
    /\ cap_notes' = IF cap_detailed THEN cap_notes \cup {"Solving catpcha"}
                    ELSE cap_notes
    /\ cap_result' = IF cap_page.field THEN "True" ELSE "False"
    /\ UNCHANGED <<cap_refreshes, cap_waited>>

\* one call of handle_captcha(check_presence) (lines 1563-1645)
HandleCaptcha ==
    /\ cap_pc = "call"
    /\ cap_pc' = "returned"
    /\ \E changed \in BOOLEAN :
         IF cap_check_presence /\ ~cap_page.form
         THEN /\ cap_result' = "None"
              /\ UNCHANGED <<cap_refreshes, cap_waited, cap_notes>>
         ELSE IF ~cap_page.img THEN CaptchaSolveError
         ELSE IF cap_page.solution = "Not solved"
         THEN CaptchaNotSolved(changed)
         ELSE CaptchaSolved
    /\ UNCHANGED <<cap_wait, cap_check_presence, cap_detailed, cap_page>>
    /\ UNCHANGED <<offers, check_shipping, condition, buy_box, cs_reserve_min,
                   cs_reserve_max, idx, verdicts, in_stock, cs_pc, cs_result,
                   loadVars, listVars, shipVars>>
    /\ UNCHANGED <<storeVars, runVars, callVars>>

\* handle_captcha is not running
CaptchaIdle ==
    /\ cap_wait = FALSE
    /\ cap_check_presence = TRUE
    /\ cap_detailed = FALSE
    /\ cap_page = [form |-> FALSE, img |-> FALSE, solution |-> "Not solved",
                   field |-> FALSE]
    /\ cap_result = "None"
    /\ cap_refreshes = 0
    /\ cap_waited = FALSE
    /\ cap_notes = {}
    /\ cap_pc = "idle"

\* the page-load loop has not run
LoadIdle ==
    /\ fail_counter = 0
    /\ load_attempts = 0
    /\ delays = 0
    /\ recycle = <<>>
    /\ cs_error = "none"
    /\ cs_notes = {}

\* the four page queries found one node of each kind per offer
ListsAligned ==
    /\ prices_len = Len(offers)
    /\ shipping_len = Len(offers)
    /\ sellers_len = Len(offers)

\* check_stock is not running
OffersIdle ==
    /\ LoadIdle
    /\ offers = <<>>
    /\ ListsAligned
    /\ check_shipping = FALSE
    /\ condition = AmazonItemCondition.New
    /\ buy_box = FALSE
    /\ cs_reserve_min = 0
    /\ cs_reserve_max = 0
    /\ idx = 1
    /\ verdicts = <<>>
    /\ in_stock = FALSE
    /\ cs_pc = "idle"
    /\ cs_result = FALSE

StockIdle == OffersIdle /\ ShipIdle /\ CaptchaIdle

StockStart ==
    /\ LoadIdle
    /\ ShipIdle
    /\ CaptchaIdle
    /\ check_shipping \in BOOLEAN
    /\ condition \in ConditionCaps
    /\ idx = 1
    /\ verdicts = <<>>
    /\ in_stock = FALSE
    /\ cs_pc = "offers"
    /\ cs_result = FALSE

-----------------------------------------------------------------------------
(* AmazonStoreHandler.run: the hunt loop of the hybrid handler              *)

\* list.remove(x): drops the first element equal to x
RECURSIVE RemoveFirst(_, _)
RemoveFirst(lst, x) ==
    IF lst = <<>> THEN <<>>
    ELSE IF Head(lst) = x THEN Tail(lst)
    ELSE <<Head(lst)>> \o RemoveFirst(Tail(lst), x)

\* a removal that works on the list as it was when the previous removal
\* step started, bringing back what that step had removed
RemoveGroupLoop_StaleCopy(lst, i, g) ==
    IF list_before = <<>> THEN SelectSeq(lst, LAMBDA x : x.group_id # g)
    ELSE SelectSeq(list_before, LAMBDA x : x.group_id # g)

\* lines 387-391: "for item in self.item_list: if item.group_id == g:
\* self.item_list.remove(item)".  The list iterator keeps an index i into the
\* list it walks; a removal shifts the rest down while i still moves on.
RECURSIVE RemoveGroupLoop(_, _, _)
RemoveGroupLoop(lst, i, g) ==
    IF i > Len(lst) THEN lst
    ELSE IF lst[i].group_id = g
         THEN RemoveGroupLoop(RemoveFirst(lst, lst[i]), i + 1, g)
         ELSE RemoveGroupLoop(lst, i + 1, g)

\* random.shuffle(self.item_list): any order of the same items
Shuffles(lst) ==
    {[i \in 1..Len(lst) |-> lst[p[i]]] : p \in Permutations(1..Len(lst))}

\* a scan that shuffles the list after every item
ScanItem_ShufflesInPass ==
    /\ st_pc = "scan"
    /\ st_pos <= Len(item_list)
    /\ \E found \in {"no_seller", "purchase_failed", "purchased"} :
         IF found = "purchased"
         THEN /\ group_id_to_remove' = item_list[st_pos].group_id
              /\ st_pc' = "pass_end"
              /\ UNCHANGED st_pos
         ELSE /\ st_pos' = st_pos + 1
              /\ st_pc' = IF st_pos = Len(item_list) THEN "pass_end" ELSE "scan"
              /\ UNCHANGED group_id_to_remove
    /\ item_list' \in Shuffles(item_list)
    /\ UNCHANGED <<list_before, removed_group, qualVars>>
    /\ UNCHANGED <<stockVars, runVars, callVars>>

\* lines 378-385: one item of the scan; the page decides whether a qualified
\* seller is found and whether attempt_purchase succeeds
ScanItem ==
    /\ st_pc = "scan"
    /\ st_pos <= Len(item_list)
    /\ \E found \in {"no_seller", "purchase_failed", "purchased"} :
         IF found = "purchased"
         THEN /\ group_id_to_remove' = item_list[st_pos].group_id
              /\ st_pc' = "pass_end"
              /\ UNCHANGED st_pos
         ELSE /\ st_pos' = st_pos + 1
              /\ st_pc' = IF st_pos = Len(item_list) THEN "pass_end" ELSE "scan"
              /\ UNCHANGED group_id_to_remove
    /\ UNCHANGED <<item_list, list_before, removed_group, qualVars>>
    /\ UNCHANGED <<stockVars, runVars, callVars>>

\* lines 386-394 and the loop test of line 376: removal of the purchased
\* group, shuffle, and the start of the next pass
EndPass ==
    /\ st_pc = "pass_end"
    /\ LET kept == IF group_id_to_remove # 0
                   THEN RemoveGroupLoop(item_list, 1, group_id_to_remove)
                   ELSE item_list
       IN  /\ item_list' \in Shuffles(kept)
           /\ st_pc' = IF kept = <<>> THEN "done" ELSE "scan"
    /\ list_before' = item_list
    /\ removed_group' = group_id_to_remove
    /\ group_id_to_remove' = 0
    /\ st_pos' = 1
    /\ UNCHANGED <<qualVars, stockVars, runVars, callVars>>

NextStore == ScanItem \/ EndPass

\* free_shipping_check (amazon_ajax.py lines 104-108)
free_shipping_check(cost) == IF cost > 0 THEN FALSE ELSE TRUE

\* common.amazon_support.condition_check: the offer is in a condition no
\* worse than the one asked for the item
condition_check(item, seller) == seller.condition <= item.condition

\* common.amazon_support.price_check: price plus shipping lies in the range
\* of the item, the two ends taken with a tolerance of one cent
price_check(item, seller) ==
    /\ item.min_price - 1 <= seller.price + seller.ship
    /\ seller.price + seller.ship <= item.max_price + 1

\* The loop of lines 410-424 as the code runs it: every branch of the body
\* ends in a return, so only the first element of the list is looked at.
find_qualified_seller(item, item_sellers, cship) ==
    IF item_sellers = <<>> THEN <<>>
    ELSE LET seller == item_sellers[1] IN
         IF ~cship /\ ~free_shipping_check(seller.ship) THEN <<>>
         ELSE IF ~condition_check(item, seller) THEN <<>>
         ELSE IF ~price_check(item, seller) THEN <<>>
         ELSE <<seller>>

\* SellerDetail values parse_offer builds (lines 687-693)
SellerDetails ==
    [name : {<<"Amazon">>, <<"ThirdPartyCo">>},
     price : {11000, 20000},
     ship : {0, 500},
     condition : {AmazonItemCondition.New}]
    \cup
    [name : {<<"Amazon">>}, price : {11000}, ship : {0},
     condition : {AmazonItemCondition.UsedGood}]

\* FGItem values parse_items builds (lines 480-487)
FGItems ==
    [min_price : {10000}, max_price : {12000},
     condition : {AmazonItemCondition.New, AmazonItemCondition.UsedGood}]

\* lines 379-381 of run for one item: find_qualified_seller (lines 407-424)
\* and, when it returns a seller, the call of attempt_purchase
FindQualifiedSeller ==
    /\ fq_pc = "call"
    /\ LET q == find_qualified_seller(fq_item, fq_sellers, fq_check_shipping)
       IN  /\ fq_result' = q
           /\ fq_purchase' = IF q # <<>> THEN fq_purchase \o q ELSE fq_purchase
    /\ fq_pc' = "done"
    /\ UNCHANGED <<fq_item, fq_sellers, fq_check_shipping>>
    /\ UNCHANGED <<item_list, st_pc, st_pos, group_id_to_remove, list_before,
                   removed_group>>
    /\ UNCHANGED <<stockVars, runVars, callVars>>

\* find_qualified_seller is not running
QualIdle ==
    /\ fq_item = [min_price |-> 0, max_price |-> 0,
                  condition |-> AmazonItemCondition.New]
    /\ fq_sellers = <<>>
    /\ fq_check_shipping = FALSE
    /\ fq_result = <<>>
    /\ fq_purchase = <<>>
    /\ fq_pc = "idle"

\* parse_items (lines 476-487): the ASINs of one configuration entry get one
\* fresh group_id and are appended next to each other
GroupIds(n) ==
    {h \in [1..n -> 1..n] :
        /\ h[1] = 1
        /\ \A i \in 1..(n - 1) : h[i + 1] \in {h[i], h[i] + 1}}

\* the item lists parse_items builds from at most m ASINs
ItemListsUpTo(m) ==
    UNION {{[i \in 1..n |-> [id |-> i, group_id |-> g[i]]] : g \in GroupIds(n)} :
             n \in 1..m}

ConfiguredLists == ItemListsUpTo(MaxItems)

StoreIdle ==
    /\ QualIdle
    /\ item_list = <<>>
    /\ st_pc = "idle"
    /\ st_pos = 1
    /\ group_id_to_remove = 0
    /\ list_before = <<>>
    /\ removed_group = 0

StoreStart ==
    /\ QualIdle
    /\ item_list \in ConfiguredLists
    /\ st_pc = "scan"
    /\ st_pos = 1
    /\ group_id_to_remove = 0
    /\ list_before = <<>>
    /\ removed_group = 0

-----------------------------------------------------------------------------
(* Amazon.run: hunt loop, buy-it-now and the checkout navigator             *)

Range(f) == {f[i] : i \in DOMAIN f}

RemoveAt(q, i) ==
    IF i = 0 THEN q ELSE SubSeq(q, 1, i - 1) \o SubSeq(q, i + 1, Len(q))

\* a search that keeps going after a match and ends on the last group that
\* holds ASIN a
GroupIndex_LastMatch(al, a) ==
    IF \E i \in 1..Len(al) : a \in Range(al[i])
    THEN CHOOSE i \in 1..Len(al) :
            /\ a \in Range(al[i])
            /\ \A k \in (i + 1)..Len(al) : a \notin Range(al[k])
    ELSE 0

\* index of the first group that holds ASIN a, 0 when there is none
GroupIndex(al, a) ==
    IF \E i \in 1..Len(al) : a \in Range(al[i])
    THEN CHOOSE i \in 1..Len(al) :
            /\ a \in Range(al[i])
            /\ \A k \in 1..(i - 1) : a \notin Range(al[k])
    ELSE 0

\* remove_asin_list applied to asin_list, reserve_min or reserve_max
remove_asin_list(q, al, a) == RemoveAt(q, GroupIndex(al, a))

\* load_asin_config: entry k of the item list gives group k and its bounds;
\* the ASINs of the model are 1..n and the bounds of a group are told apart
\* by its first ASIN
ConfigMin(group) == 1000 * group[1]
ConfigMax(group) == 1000 * group[1] + 500

AsinGroups(n, g) ==
    [k \in 1..g[n] |-> SelectSeq([i \in 1..n |-> i], LAMBDA i : g[i] = k)]

ConfiguredAsinLists ==
    UNION {{AsinGroups(n, g) : g \in GroupIds(n)} : n \in 1..MaxAsins}

\* the ASINs run_asins goes over: "for i ...: for asin in self.asin_list[i]"
HuntedAsins(al) == UNION {Range(al[i]) : i \in DOMAIN al}

\* lines 229-232 with the hunt going on for as long as the list has entries
BuyNowFound_IgnoresSingleShot(a, placed) ==
    LET al == remove_asin_list(asin_list, asin_list, a) IN
    /\ asin_list' = al
    /\ reserve_min' = remove_asin_list(reserve_min, asin_list, a)
    /\ reserve_max' = remove_asin_list(reserve_max, asin_list, a)
    /\ removed_log' = Append(removed_log,
                             [asin |-> a, how |-> "remove_asin_list",
                              before |-> asin_list, after |-> al,
                              ordered |-> placed])
    /\ pc' = IF al = <<>> THEN "done" ELSE "run_asins"
    /\ asin' = a
    /\ order_placed' = placed

\* lines 229-232: the ASIN that run_asins returned is taken off the list
BuyNowFound(a, placed) ==
    LET al == remove_asin_list(asin_list, asin_list, a) IN
    /\ asin_list' = al
    /\ reserve_min' = remove_asin_list(reserve_min, asin_list, a)
    /\ reserve_max' = remove_asin_list(reserve_max, asin_list, a)
    /\ removed_log' = Append(removed_log,
                             [asin |-> a, how |-> "remove_asin_list",
                              before |-> asin_list, after |-> al,
                              ordered |-> placed])
    /\ pc' = IF al = <<>> \/ single_shot THEN "done" ELSE "run_asins"
    /\ asin' = a
    /\ order_placed' = placed

\* run_asins (lines 409-433) up to the check_stock call that ends its
\* "while not found_asin" loop or raises, and, when that call reports an
\* offer, lines 227-240 of run.  The calls that find nothing change no state.
\*   a: the ASIN of that call; out: what the call did
RunAsinsCheck ==
    /\ pc = "run_asins"
    /\ asin_list # <<>>
    /\ \E a \in HuntedAsins(asin_list),
          out \in {"fatal", "offer", "legacy_carted"} :
         \/ /\ out = "fatal"
            /\ pc' = "raised"
            /\ UNCHANGED <<asin_list, reserve_min, reserve_max, asin,
                           try_to_checkout, checkout_retry, order_retry,
                           loop_iterations, great_success, bin_retry, sold_by,
                           nav_calls, order_placed, removed_log, notes>>
         \/ /\ out = "offer"
            /\ ~alt_checkout
            /\ pc' = "buy_it_now"
            /\ asin' = a
            /\ bin_retry' = 0
            /\ sold_by' = "unset"
            /\ order_placed' = FALSE
            /\ UNCHANGED <<asin_list, reserve_min, reserve_max,
                           try_to_checkout, checkout_retry, order_retry,
                           loop_iterations, great_success, nav_calls,
                           removed_log, notes>>
         \/ /\ out = "legacy_carted"
            /\ ~alt_checkout
            /\ BuyNowFound(a, FALSE)
            /\ UNCHANGED <<try_to_checkout, checkout_retry, order_retry,
                           loop_iterations, great_success, bin_retry, sold_by,
                           nav_calls, notes>>
         \/ /\ out \in {"offer", "legacy_carted"}
            /\ alt_checkout
            /\ pc' = "checkout"
            /\ asin' = a
            /\ try_to_checkout' = TRUE
            /\ checkout_retry' = 0
            /\ order_retry' = 0
            /\ loop_iterations' = 0
            /\ great_success' = FALSE
            /\ nav_calls' = 0
            /\ order_placed' = FALSE
            /\ notes' = {}
            /\ UNCHANGED <<asin_list, reserve_min, reserve_max, bin_retry,
                           sold_by, removed_log>>
    /\ UNCHANGED <<alt_checkout, single_shot, testing>>
    /\ UNCHANGED <<stockVars, storeVars, callVars>>

\* buy_it_now gives up: check_stock returns False and run_asins moves on
BuyNowFailed ==
    /\ pc' = "run_asins"
    /\ UNCHANGED <<asin_list, reserve_min, reserve_max, asin, order_placed,
                   removed_log>>

\* "retry += 1; if retry > max_atc_retries: return False; continue"
BuyNowRetry ==
    /\ bin_retry' = bin_retry + 1
    /\ IF bin_retry + 1 > BIN_MAX_RETRIES
       THEN BuyNowFailed
       ELSE UNCHANGED <<asin_list, reserve_min, reserve_max, pc, asin,
                        order_placed, removed_log>>

\* sold_by in amazon_config["FIRST_PARTY_SELLERS"]
FirstPartySeller(sb) == sb = "first"

\* one pass of the "while not successful" loop of buy_it_now (lines 908-1005)
\* and, when it returns, what check_stock, run_asins and run do with it.
\*   page: what the buy-it-now URL shows
\*   seen: the seller text of the checkout page, "none" when there is none
\*   click: outcome of place_order_button.click()
\*   done: the order-complete page follows
BuyItNowStep ==
    /\ pc = "buy_it_now"
    /\ \E page \in {"not_checkout", "no_button", "button"},
          seen \in {"first", "third", "none"},
          click \in {"ok", "webdriver_exception"},
          done \in BOOLEAN :
         LET sb == IF seen = "none" THEN sold_by ELSE seen IN
         \/ /\ page \in {"not_checkout", "no_button"}
            /\ seen = "none" /\ click = "ok" /\ ~done
            /\ BuyNowRetry
            /\ UNCHANGED sold_by
         \/ /\ page = "button" /\ testing
            /\ click = "ok" /\ ~done
            /\ sold_by' = sb
            /\ bin_retry' = bin_retry
            /\ BuyNowFound(asin, FALSE)
         \/ /\ page = "button" /\ ~testing
            /\ sb = "unset"
            /\ click = "ok" /\ ~done
            \* sold_by is read before it was ever assigned
            /\ pc' = "raised"
            /\ UNCHANGED <<asin_list, reserve_min, reserve_max, asin,
                           order_placed, removed_log, bin_retry, sold_by>>
         \/ /\ page = "button" /\ ~testing
            /\ sb # "unset"
            /\ FirstPartySeller(sb)
            /\ sold_by' = sb
            /\ IF click = "webdriver_exception"
               THEN ~done /\ BuyNowRetry
               ELSE bin_retry' = bin_retry /\ BuyNowFound(asin, done)
         \/ /\ page = "button" /\ ~testing
            /\ sb # "unset"
            /\ ~FirstPartySeller(sb)
            /\ click = "ok" /\ ~done
            \* "Third Party detected, bailing!": no click, successful = True
            /\ sold_by' = sb
            /\ bin_retry' = bin_retry
            /\ BuyNowFound(asin, FALSE)
    /\ UNCHANGED <<alt_checkout, single_shot, testing, try_to_checkout,
                   checkout_retry, order_retry,
                   loop_iterations, great_success, nav_calls, notes>>
    /\ UNCHANGED <<stockVars, storeVars, callVars>>

\* The navigator's view of the attempt when navigate_pages is called:
\*   try, cr, orr, gs: try_to_checkout, checkout_retry, order_retry,
\*   great_success; clear: asin_list was set to []; notes: what was sent
NavState ==
    [try |-> try_to_checkout, cr |-> checkout_retry, orr |-> order_retry,
     gs |-> great_success, clear |-> FALSE, notes |-> {}]

\* an order-complete handler that forgets "self.try_to_checkout = False"
handle_order_complete_KeepsTrying(s) ==
    [s EXCEPT !.notes = @ \cup {"Order placed.", "purchase_sound"},
              !.gs = TRUE,
              !.clear = single_shot]

\* handle_order_complete (lines 1531-1546)
handle_order_complete(s) ==
    [s EXCEPT !.notes = @ \cup {"Order placed.", "purchase_sound"},
              !.gs = TRUE,
              !.clear = single_shot,
              !.try = FALSE]

\* a cart handler that counts its failures in order_retry
handle_cart_CountsOrderRetry(s) ==
    {s,
     [s EXCEPT !.try = FALSE],
     [s EXCEPT !.orr = @ + 1,
               !.notes = @ \cup {"Proceed to Checkout Error Occurred"}],
     [s EXCEPT !.orr = @ + 1]}

\* handle_cart (lines 1413-1475), by what the cart page does:
\*   button clicked; cart count 0; no button before the timeout; click failed
handle_cart(s) ==
    {s,
     [s EXCEPT !.try = FALSE],
     [s EXCEPT !.cr = @ + 1,
               !.notes = @ \cup {"Proceed to Checkout Error Occurred"}],
     [s EXCEPT !.cr = @ + 1]}

\* handle_checkout (lines 1478-1528): no usable button before the timeout;
\* button found in a test; button found and clicked
handle_checkout(s) ==
    {[s EXCEPT !.orr = @ + 1,
               !.notes = @ \cup {"Error in placing order.  Please check browser window."}]}
    \cup
    (IF testing
     THEN {[s EXCEPT !.try = FALSE,
                     !.notes = @ \cup {"Test Carted.", "purchase_sound"},
                     !.gs = TRUE,
                     !.clear = single_shot]}
     ELSE {s})

\* handle_home_page (lines 1377-1410): cart button clicked or the user acted;
\* nobody acted within the timeout
handle_home_page(s) ==
    {s,
     [s EXCEPT !.try = FALSE,
               !.notes = @ \cup {"Could not click cart button, user intervention required"}]}

\* handle_doggos (lines 1549-1553)
handle_doggos(s) ==
    [s EXCEPT !.try = FALSE,
              !.notes = @ \cup {"You got dogs, bot may not work correctly. Ending Checkout"}]

\* handle_out_of_stock (lines 1556-1560)
handle_out_of_stock(s) ==
    [s EXCEPT !.try = FALSE,
              !.notes = @ \cup {"Carted it, but went out of stock, better luck next time."}]

\* handle_unknown_title (lines 1246-1258): alarm and notification on the first
\* call of an attempt (unknown_title_notification_sent), then the countdown
handle_unknown_title(s) ==
    {[s EXCEPT !.notes = @ \cup {"User interaction required for checkout! You have 30 seconds!"}],
     s}

\* the "else" branch of navigate_pages (lines 1105-1244):
\*   success banner found -> handle_order_complete after two warnings;
\*   Prime "No Thanks" clicked, address button clicked (shipping_bypass);
\*   cart count 0 -> stop trying;
\*   otherwise the operator pause and the cart-page recovery, which either
\*   return as they are or find the cart empty
UnknownPage(s) ==
    {handle_order_complete(
        [s EXCEPT !.notes = @ \cup
            {"FairGame may have made a purchase, please confirm ASAP",
             "Notifications that follow assume purchase has been made, YOU MUST CONFIRM THIS ASAP"}]),
     s,
     [s EXCEPT !.try = FALSE]}
    \cup handle_unknown_title(s)
    \cup {[u EXCEPT !.try = FALSE] : u \in handle_unknown_title(s)}

\* the classes of page titles navigate_pages tells apart (lines 1074-1105)
Titles ==
    {"SignIn", "Captcha", "Cart", "Checkout", "OrderComplete", "Prime",
     "Home", "Doggo", "OutOfStock", "BusinessPO", "AddressSelect", "Unknown"}

\* navigate_pages (lines 1055-1244): the outcomes of the handler the title
\* selects.  login, handle_captcha, handle_prime_signup, handle_business_po
\* and handle_shipping_page change none of the attempt's flags.
\*   shipping_bypass: self.shipping_bypass, a setting the attempt never writes
navigate_pages(t, shipping_bypass, s) ==
    IF t = "Cart" THEN handle_cart(s)
    ELSE IF t = "Checkout" THEN handle_checkout(s)
    ELSE IF t = "OrderComplete" THEN {handle_order_complete(s)}
    ELSE IF t = "Home" THEN handle_home_page(s)
    ELSE IF t = "Doggo" THEN {handle_doggos(s)}
    ELSE IF t = "OutOfStock" THEN {handle_out_of_stock(s)}
    ELSE IF t = "AddressSelect"
         THEN (IF shipping_bypass THEN {s} ELSE handle_unknown_title(s))
    ELSE IF t = "Unknown" THEN UnknownPage(s)
    ELSE {s}

\* what the navigator sends or plays to announce a purchase
PurchaseNotes ==
    {"Order placed.", "Test Carted.", "purchase_sound",
     "FairGame may have made a purchase, please confirm ASAP",
     "Notifications that follow assume purchase has been made, YOU MUST CONFIRM THIS ASAP"}

\* lines 248-253: the attempt succeeded and the hunt is not single-shot
RemoveAfterSuccess(r) == ~r.try /\ ~single_shot /\ r.gs

\* retry limiters without the order_retry branch
RetryLimiter_NoOrderRetry(r) ==
    IF r.cr > DEFAULT_MAX_PTC_TRIES THEN FALSE ELSE r.try

\* lines 255-260: the retry limiters, reached when the success test fails
RetryLimiter(r) ==
    IF r.cr > DEFAULT_MAX_PTC_TRIES THEN FALSE
    ELSE IF r.orr > DEFAULT_MAX_PYO_TRIES THEN FALSE
    ELSE r.try

\* lines 261-264: the cap on the iterations of the checkout loop
LoopLimiter(n, try) ==
    IF n > DEFAULT_MAX_CHECKOUT_LOOPS THEN FALSE ELSE try

\* one iteration of "while self.try_to_checkout" (lines 241-267): the
\* navigate_pages call, the success test, the limiters and the loop test.
\*   at: where the call is ("checkout": about to be made, "twofa": inside
\*       login, waiting for the two-step code)
\*   outs: the ways the navigate_pages call can leave the attempt
CheckoutLoop(at, outs) ==
    /\ pc = at
    /\ try_to_checkout
    /\ \E r \in outs :
         LET cleared == IF r.clear THEN <<>> ELSE asin_list
             rem     == RemoveAfterSuccess(r)
             al      == IF rem THEN remove_asin_list(cleared, cleared, asin)
                        ELSE cleared
             try1    == IF rem THEN r.try ELSE RetryLimiter(r)
             try2    == LoopLimiter(loop_iterations + 1, try1)
             placed  == order_placed \/ "Order placed." \in r.notes
         IN  /\ asin_list' = al
             /\ reserve_min' = IF rem THEN remove_asin_list(reserve_min, cleared, asin)
                               ELSE reserve_min
             /\ reserve_max' = IF rem THEN remove_asin_list(reserve_max, cleared, asin)
                               ELSE reserve_max
             /\ removed_log' =
                  IF rem
                  THEN Append(removed_log,
                              [asin |-> asin, how |-> "remove_asin_list",
                               before |-> asin_list, after |-> al,
                               ordered |-> placed])
                  ELSE IF r.clear
                  THEN Append(removed_log,
                              [asin |-> asin, how |-> "single_shot",
                               before |-> asin_list, after |-> al,
                               ordered |-> placed])
                  ELSE removed_log
             /\ try_to_checkout' = try2
             /\ checkout_retry' = r.cr
             /\ order_retry' = r.orr
             /\ great_success' = r.gs
             /\ loop_iterations' = loop_iterations + 1
             /\ nav_calls' = IF at = "checkout" THEN nav_calls + 1 ELSE nav_calls
             /\ notes' = r.notes \cap PurchaseNotes
             /\ order_placed' = placed
             /\ pc' = IF try2 THEN "checkout"
                      ELSE IF al = <<>> THEN "done" ELSE "run_asins"
    /\ UNCHANGED <<alt_checkout, single_shot, testing, asin, bin_retry,
                   sold_by>>
    /\ UNCHANGED <<stockVars, storeVars, callVars>>

\* navigate_pages returns
NavigatePages ==
    \E t \in Titles :
        CheckoutLoop("checkout",
                     UNION {navigate_pages(t, shipping_bypass, NavState) :
                               shipping_bypass \in BOOLEAN})

\* navigate_pages ends in a StaleElementReferenceException, which the loop
\* swallows (lines 245-246)
NavigateStale == CheckoutLoop("checkout", {NavState})

\* navigate_pages calls login on a sign-in title, and login does not come
\* back at once (lines 359-362 and 400-405):
\*   "auth-error-message-box" is on the page -> exit(1);
\*   the title is a two-step verification title -> "while self.driver.title
\*   in TWOFA_TITLES: time.sleep(2)", a wait that has no timeout
LoginHolds ==
    /\ pc = "checkout"
    /\ try_to_checkout
    /\ \E held \in {"twofa", "exited"} : pc' = held
    /\ nav_calls' = nav_calls + 1
    /\ UNCHANGED <<asin_list, reserve_min, reserve_max, alt_checkout,
                   single_shot, testing, asin, try_to_checkout, checkout_retry,
                   order_retry, loop_iterations, great_success, bin_retry,
                   sold_by, order_placed, removed_log, notes>>
    /\ UNCHANGED <<stockVars, storeVars, callVars>>

\* the user enters the two-step code: the title changes, login and
\* navigate_pages return and the loop iteration is completed
TwoFactorEntered == CheckoutLoop("twofa", {NavState})

NextRun ==
    \/ RunAsinsCheck
    \/ BuyItNowStep
    \/ NavigatePages
    \/ NavigateStale
    \/ LoginHolds
    \/ TwoFactorEntered

RunIdle ==
    /\ asin_list = <<>>
    /\ reserve_min = <<>>
    /\ reserve_max = <<>>
    /\ alt_checkout = FALSE
    /\ single_shot = FALSE
    /\ testing = FALSE
    /\ pc = "idle"
    /\ asin = 0
    /\ try_to_checkout = FALSE
    /\ checkout_retry = 0
    /\ order_retry = 0
    /\ loop_iterations = 0
    /\ great_success = FALSE
    /\ bin_retry = 0
    /\ sold_by = "unset"
    /\ nav_calls = 0
    /\ order_placed = FALSE
    /\ removed_log = <<>>
    /\ notes = {}

\* one call of remove_asin_list(asin) (lines 1045-1051)
RemoveAsinList ==
    /\ pc = "remove"
    /\ LET al == remove_asin_list(asin_list, asin_list, asin) IN
         /\ asin_list' = al
         /\ reserve_min' = remove_asin_list(reserve_min, asin_list, asin)
         /\ reserve_max' = remove_asin_list(reserve_max, asin_list, asin)
         /\ removed_log' = Append(removed_log,
                                  [asin |-> asin, how |-> "remove_asin_list",
                                   before |-> asin_list, after |-> al,
                                   ordered |-> order_placed])
    /\ pc' = "done"
    /\ UNCHANGED <<alt_checkout, single_shot, testing, asin, try_to_checkout,
                   checkout_retry, order_retry, loop_iterations, great_success,
                   bin_retry, sold_by, nav_calls, order_placed, notes>>
    /\ UNCHANGED <<stockVars, storeVars, callVars>>

\* the ASINs a configuration can name
Asins == 1..(MaxAsins + 1)

\* "asins" of one itemList entry: one ASIN or two
AsinGroupsOf(A) ==
    {<<a>> : a \in A} \cup {<<p[1], p[2]>> : p \in {q \in A \X A : q[1] # q[2]}}

\* lines 1795-1809: entry k of itemList gives asin_list[k], reserve_min[k]
\* and reserve_max[k]; nothing keeps an ASIN out of a second entry
EntryMin(k) == 1000 * k
EntryMax(k) == 1000 * k + 500

\* the state of run when it reaches "Checking stock for items." (line 223)
RunStart ==
    /\ asin_list \in ConfiguredAsinLists
    /\ reserve_min = [i \in 1..Len(asin_list) |-> ConfigMin(asin_list[i])]
    /\ reserve_max = [i \in 1..Len(asin_list) |-> ConfigMax(asin_list[i])]
    /\ alt_checkout \in BOOLEAN
    /\ single_shot \in BOOLEAN
    /\ testing \in BOOLEAN
    /\ pc = "run_asins"
    /\ asin = 0
    /\ try_to_checkout = FALSE
    /\ checkout_retry = 0
    /\ order_retry = 0
    /\ loop_iterations = 0
    /\ great_success = FALSE
    /\ bin_retry = 0
    /\ sold_by = "unset"
    /\ nav_calls = 0
    /\ order_placed = FALSE
    /\ removed_log = <<>>
    /\ notes = {}

\* what get_cart_count can return (lines 1298-1310): -1 when the counter is
\* missing or its text is no integer, otherwise the number shown
CartCounts == {-1, 0, 1, 2}

\* what run meets before the hunt (lines 188-219):
\*   home: how get_page(BASE_URL) ends
\*   cart_before, cart_after: the cart count before and after the login
\*   login: the session is logged in or login succeeds ("in"), or login
\*          ends in exit(1)
Startups ==
    [home : {"ok", "webdriver_exception"}, cart_before : CartCounts,
     login : {"in", "exit"}, cart_after : CartCounts]

\* run that reads the cart once only, before the login
RunStartup_OneCartCheck ==
    /\ pc = "startup"
    /\ pc' = IF call_args.home = "webdriver_exception" THEN "exited"
             ELSE IF call_args.cart_before > 0 THEN "returned"
             ELSE IF call_args.login = "exit" THEN "exited"
             ELSE "run_asins"
    /\ UNCHANGED <<asin_list, reserve_min, reserve_max, alt_checkout,
                   single_shot, testing, asin, try_to_checkout, checkout_retry,
                   order_retry, loop_iterations, great_success, bin_retry,
                   sold_by, nav_calls, order_placed, removed_log, notes>>
    /\ UNCHANGED <<stockVars, storeVars, callVars>>

\* run from the home page to "Checking stock for items." (lines 188-223):
\* exit(-1) when the home page does not load; return when the cart count is
\* above 0; handle_startup and login; return when the cart count read after
\* the login is above 0; otherwise the hunt loop starts
RunStartup ==
    /\ pc = "startup"
    /\ pc' = IF call_args.home = "webdriver_exception" THEN "exited"
             ELSE IF call_args.cart_before > 0 THEN "returned"
             ELSE IF call_args.login = "exit" THEN "exited"
             ELSE IF call_args.cart_after > 0 THEN "returned"
             ELSE "run_asins"
    /\ UNCHANGED <<asin_list, reserve_min, reserve_max, alt_checkout,
                   single_shot, testing, asin, try_to_checkout, checkout_retry,
                   order_retry, loop_iterations, great_success, bin_retry,
                   sold_by, nav_calls, order_placed, removed_log, notes>>
    /\ UNCHANGED <<stockVars, storeVars, callVars>>

\* what an unrecognised page can show to the "else" branch of navigate_pages
\* (lines 1105-1244), one flag per test the branch makes:
\*   banner: the "a-alert-success" box is found (1120-1126)
\*   prime_button, prime_click: PRIME_NO_THANKS is found, its click works
\*   shipping_bypass: self.shipping_bypass; address_click: the result of
\*   handle_shipping_page; cart_empty: get_cart_count() == 0 (1163)
\*   title_changed: driver.title != title after the countdown (1182)
\*   cart_get_fails: driver.get(CART_URL) raises WebDriverException (1195)
\*   cart_empty_after: get_cart_count() == 0 on the cart page (1206)
\*   ptc_button, ptc_click: PTC is found before the timeout, its click works
UnknownPages ==
    [banner : BOOLEAN, prime_button : BOOLEAN, prime_click : BOOLEAN,
     shipping_bypass : BOOLEAN, address_click : BOOLEAN, cart_empty : BOOLEAN,
     title_changed : BOOLEAN, cart_get_fails : BOOLEAN,
     cart_empty_after : BOOLEAN, ptc_button : BOOLEAN, ptc_click : BOOLEAN]

\* lines 1191-1244: the recovery through the cart page
CartRecovery(p) ==
    <<"get_cart_url">> \o
    (IF p.cart_get_fails THEN <<"refresh">>
     ELSE <<"get_cart_count">> \o
          (IF p.cart_empty_after THEN <<"try_to_checkout = False">>
           ELSE <<"find_ptc">> \o
                (IF p.ptc_button
                 THEN <<"click_ptc">> \o
                      (IF p.ptc_click THEN <<>> ELSE <<"refresh">>)
                 ELSE <<"save_page_source", "save_screenshot", "refresh">>)))

\* the branch with the countdown moved in front of the element checks
UnknownTitleSteps_PauseFirst(p) ==
    <<"handle_unknown_title", "find_success_banner">> \o
    (IF p.banner THEN <<"send_notification", "handle_order_complete">>
     ELSE <<"find_prime_no_thanks">> \o
          (IF p.prime_button /\ p.prime_click THEN <<"click_prime_no_thanks">>
           ELSE (IF p.prime_button THEN <<"click_prime_no_thanks">> ELSE <<>>) \o
                (IF p.shipping_bypass THEN <<"handle_shipping_page">> ELSE <<>>) \o
                (IF p.shipping_bypass /\ p.address_click THEN <<>>
                 ELSE <<"get_cart_count">> \o
                      (IF p.cart_empty THEN <<"try_to_checkout = False">>
                       ELSE <<"read_title">> \o
                            (IF p.title_changed THEN <<>>
                             ELSE CartRecovery(p))))))

\* lines 1105-1244: what the branch does on page p, call by call, up to its
\* return
UnknownTitleSteps(p) ==
    <<"find_success_banner">> \o
    (IF p.banner THEN <<"send_notification", "handle_order_complete">>
     ELSE <<"find_prime_no_thanks">> \o
          (IF p.prime_button /\ p.prime_click THEN <<"click_prime_no_thanks">>
           ELSE (IF p.prime_button THEN <<"click_prime_no_thanks">> ELSE <<>>) \o
                (IF p.shipping_bypass THEN <<"handle_shipping_page">> ELSE <<>>) \o
                (IF p.shipping_bypass /\ p.address_click THEN <<>>
                 ELSE <<"get_cart_count">> \o
                      (IF p.cart_empty THEN <<"try_to_checkout = False">>
                       ELSE <<"handle_unknown_title", "read_title">> \o
                            (IF p.title_changed THEN <<>>
                             ELSE CartRecovery(p))))))

\* one call of navigate_pages on a page whose title it does not know
NavigateUnknown ==
    /\ call_pc = "call"
    /\ call_steps' = UnknownTitleSteps(call_args)
    /\ call_result' = "returned"
    /\ call_pc' = "done"
    /\ UNCHANGED call_args
    /\ UNCHANGED <<stockVars, storeVars, runVars>>

\* parse_items (lines 445-491) as verify finds its result: item i has the
\* ASIN i, the uuid4 that this run drew for its configuration entry, and the
\* bounds (prices and condition) of that entry
ParsedItems ==
    {[i \in DOMAIN l |-> [id |-> l[i].id,
                          group_id |-> <<"this run", l[i].group_id>>,
                          bounds |-> <<"this run", l[i].group_id>>]] :
        l \in ItemListsUpTo(MaxAsins + 1)}

\* item_cache.p as an earlier run wrote it (line 592), for a list of n items:
\* c[a] = 0 when the ASIN a is not in the cache, otherwise the configuration
\* entry of that earlier run that the cached item was created from
ItemCaches(n) == [1..n -> 0..n]

\* the item the cache holds for the ASIN a: the object the earlier run
\* pickled, with the group_id and the bounds it had then
CachedItem(c, a) ==
    [id |-> a, group_id |-> <<"earlier run", c[a]>>,
     bounds |-> <<"earlier run", c[a]>>]

\* verify (lines 493-594): an item whose ASIN is in the cache is replaced by
\* the cached item, which takes the condition and the prices of the
\* configured one (lines 511-518); the others are looked up on the site and
\* those in purge, whose page is missing, are removed (lines 586-587)
verify(items, item_cache, purge) ==
    LET checked ==
            [i \in DOMAIN items |->
                IF item_cache[items[i].id] # 0
                THEN [CachedItem(item_cache, items[i].id)
                         EXCEPT !.bounds = items[i].bounds]
                ELSE items[i]]
    IN  SelectSeq(checked, LAMBDA it : it.id \notin purge)

\* run calls verify (line 361) on the parsed list (call_args.items) with the cache
\* file as it is (call_args.item_cache); call_steps is item_list afterwards
Verify ==
    /\ call_pc = "call"
    /\ \E purge \in SUBSET {a \in DOMAIN call_args.items :
                                call_args.item_cache[a] = 0} :
         call_steps' = verify(call_args.items, call_args.item_cache, purge)
    /\ call_result' = TRUE
    /\ call_pc' = "done"
    /\ UNCHANGED call_args
    /\ UNCHANGED <<stockVars, storeVars, runVars>>

\* Amazon.attempt_atc (lines 1008-1041), one pass of "while atc_attempts <
\* max_atc_retries"; check_stock calls it with the default of
\* DEFAULT_MAX_ATC_TRIES.  call_steps holds atc_attempts, the number of
\* driver.get calls (loads) and of clicks on Continue that worked (clicks),
\* whether the latest pass read the cart count (read) and the count it read
\* (cart), and the notifications sent.
\*   get: driver.get(f) returns or raises TimeoutException
\*   button: the Continue button is there and clickable in time
\*   click: do_button_click returns True
\*   cart: what get_cart_count() returns
attempt_atc ==
    /\ call_pc = "attempt_atc"
    /\ \E get \in {"ok", "timeout"}, button \in BOOLEAN, click \in BOOLEAN,
          cart \in CartCounts :
         LET clicked == get = "ok" /\ button /\ click
             carted  == clicked /\ cart # 0
             tried   == call_steps.atc_attempts + 1
             last    == ~carted /\ ~(tried < call_args.max_atc_retries)
         IN  /\ get = "timeout" => (~button /\ ~click /\ cart = 0)
             /\ ~button => (~click /\ cart = 0)
             /\ ~click => cart = 0
             /\ call_steps' =
                   [atc_attempts |-> IF carted THEN call_steps.atc_attempts
                                     ELSE tried,
                    loads  |-> call_steps.loads + 1,
                    clicks |-> call_steps.clicks + (IF clicked THEN 1 ELSE 0),
                    read   |-> clicked,
                    cart   |-> cart,
                    notes  |-> IF last
                               THEN call_steps.notes \cup
                                      {"Maxed out on ATC, moving on"}
                               ELSE call_steps.notes]
             /\ call_pc' = IF carted \/ last THEN "done" ELSE "attempt_atc"
             /\ call_result' = IF carted THEN "returned True"
                               ELSE IF last THEN "returned False"
                               ELSE call_result
    /\ UNCHANGED call_args
    /\ UNCHANGED <<stockVars, storeVars, runVars>>

\* what a checkout page can show to the handlers that know of the address
\* button, one flag per test they make:
\*   shipping_bypass: self.shipping_bypass
\*   button: the handler's own button is found (PTC for handle_cart, the
\*           place-order button for handle_checkout)
\*   address_button: ADDRESS_SELECT is on the page; click: a click works
\*   cart_empty: get_cart_count() == 0
AddressPages ==
    [shipping_bypass : BOOLEAN, button : BOOLEAN, address_button : BOOLEAN,
     click : BOOLEAN, cart_empty : BOOLEAN]

\* handle_shipping_page (lines 1261-1285), call by call
handle_shipping_page(p) ==
    <<"find_address_select">> \o
    (IF p.address_button
     THEN <<"send_notification", "click_address_select">> \o
          (IF p.click THEN <<>> ELSE <<"save_screenshot", "save_page_source">>)
     ELSE <<"save_screenshot", "save_page_source">>)

\* lines 1095-1104: navigate_pages on an address-selection title
AddressTitleSteps(p) ==
    IF p.shipping_bypass THEN handle_shipping_page(p)
    ELSE <<"handle_unknown_title">>

\* handle_cart that falls back on the address button whatever the setting
HandleCartSteps_AnyAddress(p) ==
    <<"find_ptc">> \o
    (IF p.button
     THEN <<"click_ptc">> \o (IF p.click THEN <<>> ELSE <<"refresh">>)
     ELSE <<"find_address_select">> \o
          (IF p.address_button
           THEN <<"click_address_select">> \o
                (IF p.click THEN <<>> ELSE <<"refresh">>)
           ELSE <<"get_cart_count">> \o
                (IF p.cart_empty THEN <<"try_to_checkout = False">>
                 ELSE <<"send_notification", "refresh">>)))

\* handle_cart (lines 1413-1475) on a page that stays as it is until the
\* timeout, call by call: PTC is looked up; without it, and only with
\* shipping_bypass, ADDRESS_SELECT; the button found is clicked; with no
\* button the cart count is read and the timeout ends in a refresh
HandleCartSteps(p) ==
    <<"find_ptc">> \o
    (IF p.button
     THEN <<"click_ptc">> \o (IF p.click THEN <<>> ELSE <<"refresh">>)
     ELSE (IF p.shipping_bypass THEN <<"find_address_select">> ELSE <<>>) \o
          (IF p.shipping_bypass /\ p.address_button
           THEN <<"click_address_select">> \o
                (IF p.click THEN <<>> ELSE <<"refresh">>)
           ELSE <<"get_cart_count">> \o
                (IF p.cart_empty THEN <<"try_to_checkout = False">>
                 ELSE <<"send_notification", "refresh">>)))

\* handle_checkout (lines 1478-1528) outside a test, on a page that stays as
\* it is until the timeout: the place-order button is looked up; without
\* it, and only with shipping_bypass, ADDRESS_SELECT; the button found is
\* clicked; with no button the timeout ends in a refresh
HandleCheckoutSteps(p) ==
    <<"find_place_order">> \o
    (IF p.button THEN <<"click_place_order">>
     ELSE (IF p.shipping_bypass THEN <<"find_address_select">> ELSE <<>>) \o
          (IF p.shipping_bypass /\ p.address_button
           THEN <<"click_address_select">>
           ELSE <<"send_notification", "refresh">>))

\* the handlers of navigate_pages that can meet an address button
AddressHandlers ==
    {"address_title", "handle_cart", "handle_checkout", "unknown_title"}

\* one call of navigate_pages that goes to one of these handlers
NavigateAddress ==
    /\ call_pc = "call"
    /\ call_steps' =
          (IF call_args.handler = "address_title"
           THEN AddressTitleSteps(call_args.page)
           ELSE IF call_args.handler = "handle_cart"
           THEN HandleCartSteps(call_args.page)
           ELSE IF call_args.handler = "handle_checkout"
           THEN HandleCheckoutSteps(call_args.page)
           ELSE UnknownTitleSteps(call_args.page))
    /\ call_result' = "returned"
    /\ call_pc' = "done"
    /\ UNCHANGED call_args
    /\ UNCHANGED <<stockVars, storeVars, runVars>>

\* one entry of "itemList" in amazon_config.json: which of the keys asins, min
\* and max it has, and the two prices (0 stands for null or 0, the values
\* that "item["min"] or 0.0" and "item["max"] or min_price" replace)
ItemEntries ==
    [has_asins : BOOLEAN, has_min : BOOLEAN, has_max : BOOLEAN,
     min : {0, 1000, 2000}, max : {0, 1500}]

\* the configuration file as load_asin_config finds it: exists is
\* os.path.exists(amazon_config_path), has_list is "itemList" in config
AsinConfigs ==
    {[exists |-> FALSE, has_list |-> FALSE, itemList |-> <<>>],
     [exists |-> TRUE, has_list |-> FALSE, itemList |-> <<>>]}
    \cup [exists : {TRUE}, has_list : {TRUE},
          itemList : UNION {[1..n -> ItemEntries] : n \in 0..MaxAsins}]

\* what one call of load_asin_config leaves: how it ended ("returned" or the
\* exit call made), the three lists and the messages logged
Loaded(how, al, rmin, rmax, msgs) ==
    [ended |-> how, asin_list |-> al, reserve_min |-> rmin,
     reserve_max |-> rmax, log |-> msgs]

\* lines 1795-1809 and 1811-1816: the loop over itemList from entry k on.
\* The asins of entry k are modelled as the group <<k>>.
RECURSIVE LoadItems(_, _, _)
LoadItems(items, k, acc) ==
    IF k > Len(items) THEN acc
    ELSE LET item == items[k]
             min_price == item.min
             max_price == IF item.max = 0 THEN min_price ELSE item.max
         IN  IF ~(item.has_asins /\ item.has_min /\ item.has_max)
             THEN \* KeyError, caught by "except Exception" (line 1811)
                  [acc EXCEPT !.ended = "exit(0)",
                              !.log = Append(@, "amazon_config.json file not formatted properly")]
             ELSE IF min_price > max_price
             THEN [acc EXCEPT !.ended = "exit(0)",
                              !.log = Append(@, "Minimum price must be <= maximum price")]
             ELSE LoadItems(items, k + 1,
                            [acc EXCEPT !.asin_list = Append(@, <<k>>),
                                        !.reserve_min = Append(@, min_price),
                                        !.reserve_max = Append(@, max_price)])

\* load_asin_config (lines 1784-1821)
load_asin_config(cfg) ==
    IF ~cfg.exists
    THEN Loaded("exit(0)", <<>>, <<>>, <<>>, <<"No config file found">>)
    ELSE IF ~cfg.has_list
    THEN Loaded("exit(0)", <<>>, <<>>, <<>>,
                <<"amazon_config.json file not formatted properly">>)
    ELSE IF Len(cfg.itemList) <= 0
    THEN Loaded("exit(0)", <<>>, <<>>, <<>>,
                <<"No asins nodes found to process in the itemList node.">>)
    ELSE LoadItems(cfg.itemList, 1, Loaded("returned", <<>>, <<>>, <<>>, <<>>))

\* how the process ends when the hunt list is exhausted: run leaves its loop
\* and returns (lines 268-270) without an exit call, and a Python process
\* that runs to its end has status 0
ExhaustedStatus == "exit(0)"

\* Amazon.__init__ calls load_asin_config on the configuration file
LoadAsinConfig ==
    /\ call_pc = "call"
    /\ LET r == load_asin_config(call_args) IN
         /\ call_result' = r
         /\ call_steps' = r.log
    /\ call_pc' = "done"
    /\ UNCHANGED call_args
    /\ UNCHANGED <<stockVars, storeVars, runVars>>

\* A condition label is modelled as the sequence of its pieces: words, and
\* the separators " ", "-" and "_" between them.  Two labels are the same
\* string exactly when they are the same sequence.
\* The names of the members of AmazonItemCondition, piece by piece (lines 4-18
\* of amazon_item_condition.py)
MemberNames ==
    {[atoms |-> <<"New">>, value |-> AmazonItemCondition.New],
     [atoms |-> <<"Renewed">>, value |-> AmazonItemCondition.Renewed],
     [atoms |-> <<"Refurbished">>, value |-> AmazonItemCondition.Refurbished],
     [atoms |-> <<"Rental">>, value |-> AmazonItemCondition.Rental],
     [atoms |-> <<"Open", "_", "box">>, value |-> AmazonItemCondition.Open_box],
     [atoms |-> <<"Used", "Like", "New">>,
      value |-> AmazonItemCondition.UsedLikeNew],
     [atoms |-> <<"Used", "Very", "Good">>,
      value |-> AmazonItemCondition.UsedVeryGood],
     [atoms |-> <<"Used", "Good">>, value |-> AmazonItemCondition.UsedGood],
     [atoms |-> <<"Used", "Acceptable">>,
      value |-> AmazonItemCondition.UsedAcceptable],
     [atoms |-> <<"Collectible", "Like", "New">>,
      value |-> AmazonItemCondition.CollectibleLikeNew],
     [atoms |-> <<"Collectible", "Very", "Good">>,
      value |-> AmazonItemCondition.CollectibleVeryGood],
     [atoms |-> <<"Collectible", "Good">>,
      value |-> AmazonItemCondition.CollectibleGood],
     [atoms |-> <<"Collectible", "Acceptable">>,
      value |-> AmazonItemCondition.CollectibleAcceptable],
     [atoms |-> <<"Unknown">>, value |-> AmazonItemCondition.Unknown]}

\* AmazonItemCondition[label]: the member of that exact name (members of
\* equal value are one member under two names), or KeyError
MemberLookup(label) ==
    IF \E m \in MemberNames : m.atoms = label
    THEN [raised |-> "None",
          member |-> (CHOOSE m \in MemberNames : m.atoms = label).value]
    ELSE [raised |-> "KeyError", member |-> 0]

NotWhitespace(a) == a # " "
NotHyphen(a) == a # "-"

\* lines 29-30: "".join(label.split()), then .replace("-", "")
CleanedLabel(label) == SelectSeq(SelectSeq(label, NotWhitespace), NotHyphen)

\* AmazonItemCondition.from_str (lines 21-35)
from_str(label) ==
    IF MemberLookup(label).raised = "None" THEN MemberLookup(label)
    ELSE IF MemberLookup(CleanedLabel(label)).raised = "None"
    THEN MemberLookup(CleanedLabel(label))
    ELSE [raised |-> "NotImplementedError", member |-> 0]

\* the words of the labels tried, one of them in no member name
LabelWords ==
    {"New", "Renewed", "Refurbished", "Rental", "Open", "box", "Used", "Like",
     "Very", "Good", "Acceptable", "Collectible", "Unknown", "Mint"}

\* what a label can have between two words
LabelSeparators == {<<>>, <<" ">>, <<"-">>, <<" ", "-", " ">>, <<"_">>}

\* the labels of n words
RECURSIVE LabelsOf(_)
LabelsOf(n) ==
    IF n = 1 THEN {<<w>> : w \in LabelWords}
    ELSE {l \o sep \o <<w>> :
            l \in LabelsOf(n - 1), sep \in LabelSeparators, w \in LabelWords}

\* one call of AmazonItemCondition.from_str
FromStr ==
    /\ call_pc = "call"
    /\ call_result' = from_str(call_args)
    /\ call_steps' = CleanedLabel(call_args)
    /\ call_pc' = "done"
    /\ UNCHANGED call_args
    /\ UNCHANGED <<stockVars, storeVars, runVars>>

\* "for i in range(len(self.asin_list)): for asin in self.asin_list[i]"
\* (lines 412-413): the ASINs in the order one pass of run_asins checks them
RECURSIVE PassOrder(_)
PassOrder(al) ==
    IF al = <<>> THEN <<>> ELSE Head(al) \o PassOrder(Tail(al))

\* one check_stock call of run_asins (lines 411-433).  call_args is
\* self.asin_list, call_steps the ASINs checked so far in the current pass
\* over it; a call that returns True ends run_asins, and after the last ASIN
\* "while not found_asin" starts the next pass.
RunAsinsProbe ==
    /\ call_pc = "probe"
    /\ LET order == PassOrder(call_args)
           done  == IF Len(call_steps) = Len(order) THEN <<>> ELSE call_steps
           a     == order[Len(done) + 1]
       IN  /\ call_steps' = Append(done, a)
           /\ \E in_stock_now \in BOOLEAN :
                IF in_stock_now
                THEN call_result' = a /\ call_pc' = "done"
                ELSE UNCHANGED <<call_result, call_pc>>
    /\ UNCHANGED call_args
    /\ UNCHANGED <<stockVars, storeVars, runVars>>

\* self.asin_names as run_asins uses it: per ASIN, no entry, an entry that
\* is falsy (''), or a name (lines 417 and 421)
NameCaches(al) == [HuntedAsins(al) -> {"absent", "empty", "named"}]

\* a run_asins that does not check an ASIN it has a name for
CheckAsin_SkipsNamed(al, run, in_stock_now) ==
    LET order == PassOrder(al)
        a     == order[(Len(run.checks) % Len(order)) + 1]
        found == in_stock_now /\ run.names[a] # "named"
    IN  [checks |-> Append(run.checks, <<a, found>>),
         names  |-> IF run.names[a] = "named" THEN run.names
                    ELSE [run.names EXCEPT ![a] = "named"],
         ret    |-> IF found THEN a ELSE 0]

\* lines 413-433: one turn of the inner loop of run_asins, in a run that has
\* made the check_stock calls run.checks and holds the cache run.names.
\*   in_stock_now: what check_stock returns for the page it loads
\* The result of the call is recorded with its ASIN; a True result is
\* returned at once (ret), otherwise a missing or falsy name is replaced by
\* the page's title or 'Title Not Found'.
CheckAsin(al, run, in_stock_now) ==
    LET order == PassOrder(al)
        a     == order[(Len(run.checks) % Len(order)) + 1]
    IN  [checks |-> Append(run.checks, <<a, in_stock_now>>),
         names  |-> IF in_stock_now \/ run.names[a] = "named" THEN run.names
                    ELSE [run.names EXCEPT ![a] = "named"],
         ret    |-> IF in_stock_now THEN a ELSE 0]

\* two runs of run_asins on the same asin_list (call_args), started with the
\* caches call_result[1] and call_result[2], take one turn each on the same
\* page; at most two passes over the list are followed
RunAsinsTwice ==
    /\ call_pc = "twice"
    /\ Len(call_steps[1].checks) < 2 * Len(PassOrder(call_args))
    /\ \E in_stock_now \in BOOLEAN :
         LET r1 == CheckAsin(call_args, call_steps[1], in_stock_now)
             r2 == CheckAsin(call_args, call_steps[2], in_stock_now)
         IN  /\ call_steps' = <<r1, r2>>
             /\ call_pc' = IF r1.ret # 0 \/ r2.ret # 0 THEN "done" ELSE "twice"
    /\ UNCHANGED <<call_args, call_result>>
    /\ UNCHANGED <<stockVars, storeVars, runVars>>

\* retry_check (amazon_ajax.py lines 111-118), the clock reading now
retry_check(start_time, now) ==
    IF now - start_time > MAXIMUM_RETRY_TIME THEN FALSE ELSE TRUE

\* seconds one turn of the add-to-cart loop can take (attempt_atc and the
\* reload of the offer page, each wait bounded by DEFAULT_MAX_TIMEOUT), and
\* one turn of the place-order loop (sleep(2), the jump to the checkout URL
\* and the wait for the buttons, lines 766-786)
AtcSeconds == {1, 11, 41}
PlaceOrderSeconds == {2, 12, 22}

\* attempt_purchase, one turn of "while keep_trying" (lines 749-762) that
\* starts with attempt_atc.  call_steps holds the clock and the locals
\* start_time and keep_trying; the attempt starts at second 0.
\* A failed attempt_atc asks retry_check; when that says no, "continue" ends
\* the loop and the function ends without a return statement.
AttemptAtc ==
    /\ call_pc = "atc"
    /\ call_steps.now < MaxSeconds
    /\ \E atc_success \in BOOLEAN, d \in AtcSeconds :
         LET now == call_steps.now + d
             keep_trying == retry_check(call_steps.start_time, now)
         IN  IF atc_success
             THEN /\ call_steps' = [call_steps EXCEPT !.now = now]
                  /\ call_pc' = "place_order"
                  /\ UNCHANGED call_result
             ELSE /\ call_steps' = [call_steps EXCEPT !.now = now,
                                        !.keep_trying = keep_trying]
                  /\ call_pc' = IF keep_trying THEN "atc" ELSE "done"
                  /\ call_result' = IF keep_trying THEN call_result
                                    ELSE "returned None"
    /\ UNCHANGED call_args
    /\ UNCHANGED <<stockVars, storeVars, runVars>>

\* attempt_purchase, one turn of the inner "while keep_trying" (lines
\* 764-846): start_time is set to the clock (line 765), then the page is
\*   your_store: the Your Store card is shown -> retry_check, continue
\*   no_buttons: no Place Your Order button (none found, or the wait raised)
\*               -> retry_check
\*   not_clickable: buttons found, none displayed and enabled -> next turn
\*   clicked: a button is displayed and enabled; it is clicked, or in a
\*            test only described (lines 805-824) -> return True
\* found says that a usable Place Your Order button was reached, clicked that
\* one was clicked.
\* When keep_trying is False the loop ends and line 847 returns False.
PlaceOrder ==
    /\ call_pc = "place_order"
    /\ call_steps.now < MaxSeconds
    /\ \E page \in {"your_store", "no_buttons", "not_clickable", "clicked"},
          d \in PlaceOrderSeconds :
         LET start_time == call_steps.now
             now == call_steps.now + d
             keep_trying == IF page \in {"your_store", "no_buttons"}
                            THEN retry_check(start_time, now)
                            ELSE call_steps.keep_trying
         IN  /\ call_steps' =
                    [call_steps EXCEPT
                        !.now = now,
                        !.start_time = start_time,
                        !.keep_trying = keep_trying,
                        !.found = (page = "clicked"),
                        !.clicked = (page = "clicked" /\ ~call_args.testing)]
             /\ IF page = "clicked"
                THEN call_pc' = "done" /\ call_result' = "returned True"
                ELSE IF keep_trying
                THEN call_pc' = "place_order" /\ UNCHANGED call_result
                ELSE call_pc' = "done" /\ call_result' = "returned False"
    /\ UNCHANGED call_args
    /\ UNCHANGED <<stockVars, storeVars, runVars>>

\* buy_it_now called by check_stock (max_atc_retries = 2), one pass of
\* "while not successful" (lines 908-1005).  call_steps holds the locals
\* retry and sold_by and, of the latest pass, seen: the seller text the
\* checkout page showed ("none": no seller element), click: what
\* place_order_button.click() did ("none": not called), found: the button
\* was found; clicked says that some pass clicked.
\*   page: what the buy-it-now URL shows
BuyItNowCall ==
    /\ call_pc = "buy_it_now"
    /\ \E page \in {"not_checkout", "no_button", "button"},
          seen \in {"first", "third", "none"},
          click \in {"ok", "webdriver_exception"} :
         LET sb == IF seen = "none" THEN call_steps.sold_by ELSE seen
             Retry(cs) ==
                 /\ call_steps' = [cs EXCEPT !.retry = @ + 1]
                 /\ IF cs.retry + 1 > BIN_MAX_RETRIES
                    THEN call_pc' = "done" /\ call_result' = "returned False"
                    ELSE call_pc' = "buy_it_now" /\ UNCHANGED call_result
             Pass(f, sn, ck) ==
                 [call_steps EXCEPT !.found = f, !.seen = sn, !.click = ck,
                                    !.clicked = @ \/ ck # "none"]
         IN  \/ /\ page \in {"not_checkout", "no_button"}
                /\ seen = "none" /\ click = "ok"
                /\ Retry(Pass(FALSE, "unread", "none"))
             \/ /\ page = "button" /\ call_args.testing
                /\ click = "ok"
                \* lines 935-962: the seller is notified, nothing is clicked
                /\ call_steps' = [Pass(TRUE, seen, "none") EXCEPT !.sold_by = sb]
                /\ call_pc' = "done"
                /\ call_result' = "returned True"
             \/ /\ page = "button" /\ ~call_args.testing
                /\ sb = "unset"
                /\ click = "ok"
                \* line 979 reads sold_by before it was ever assigned
                /\ call_steps' = Pass(TRUE, seen, "none")
                /\ call_pc' = "done"
                /\ call_result' = "raised UnboundLocalError"
             \/ /\ page = "button" /\ ~call_args.testing
                /\ sb # "unset"
                /\ FirstPartySeller(sb)
                /\ IF click = "webdriver_exception"
                   THEN Retry([Pass(TRUE, seen, click) EXCEPT !.sold_by = sb])
                   ELSE /\ call_steps' =
                            [Pass(TRUE, seen, click) EXCEPT !.sold_by = sb]
                        /\ call_pc' = "done"
                        /\ call_result' = "returned True"
             \/ /\ page = "button" /\ ~call_args.testing
                /\ sb # "unset"
                /\ ~FirstPartySeller(sb)
                /\ click = "ok"
                \* "Third Party detected, bailing!", then successful = True
                /\ call_steps' = [Pass(TRUE, seen, "none") EXCEPT !.sold_by = sb]
                /\ call_pc' = "done"
                /\ call_result' = "returned True"
    /\ UNCHANGED call_args
    /\ UNCHANGED <<stockVars, storeVars, runVars>>

\* handle_checkout that clicks the button it found whether test is set or not
HandleCheckoutCall_ClicksInTest ==
    /\ call_pc = "handle_checkout"
    /\ \E button \in {"found", "timeout"} :
         IF button = "timeout"
         THEN /\ call_steps' = [call_steps EXCEPT !.order_retry = @ + 1]
              /\ call_pc' = IF call_steps.order_retry + 1 > DEFAULT_MAX_PYO_TRIES
                            THEN "done" ELSE "handle_checkout"
              /\ call_result' = IF call_steps.order_retry + 1 > DEFAULT_MAX_PYO_TRIES
                                THEN "gave up" ELSE call_result
         ELSE /\ call_steps' = [call_steps EXCEPT !.found = TRUE,
                                                  !.clicked = TRUE]
              /\ call_pc' = "done"
              /\ call_result' = IF call_args.testing THEN "Test Carted."
                                ELSE "clicked"
    /\ UNCHANGED call_args
    /\ UNCHANGED <<stockVars, storeVars, runVars>>

\* handle_checkout(test) called by navigate_pages on a checkout title (lines
\* 1478-1528), once per turn of the checkout loop of run while order_retry
\* is within DEFAULT_MAX_PYO_TRIES (lines 259-261).
\*   timeout: no enabled, displayed button in time -> order_retry += 1
\*   found:   test -> try_to_checkout = False, "Test Carted.", no click;
\*            otherwise do_button_click(button)
HandleCheckoutCall ==
    /\ call_pc = "handle_checkout"
    /\ \E button \in {"found", "timeout"} :
         IF button = "timeout"
         THEN /\ call_steps' = [call_steps EXCEPT !.order_retry = @ + 1]
              /\ call_pc' = IF call_steps.order_retry + 1 > DEFAULT_MAX_PYO_TRIES
                            THEN "done" ELSE "handle_checkout"
              /\ call_result' = IF call_steps.order_retry + 1 > DEFAULT_MAX_PYO_TRIES
                                THEN "gave up" ELSE call_result
         ELSE /\ call_steps' = [call_steps EXCEPT !.found = TRUE,
                                                  !.clicked = ~call_args.testing]
              /\ call_pc' = "done"
              /\ call_result' = IF call_args.testing THEN "Test Carted."
                                ELSE "clicked"
    /\ UNCHANGED call_args
    /\ UNCHANGED <<stockVars, storeVars, runVars>>

\* the call check_stock makes on itself after a legacy add-to-cart click
\* that did not fill the cart, with retry counted as it was
RetryCall_SameRetry(retry) == [retry |-> retry, idx |-> 0]

\* lines 876-881: the call check_stock makes on itself after a legacy
\* add-to-cart click that did not fill the cart.  A frame holds the argument
\* retry and idx, the offer its loop is at (0: the page is not loaded yet).
RetryCall(retry) == [retry |-> retry + 1, idx |-> 0]

\* one step of the innermost check_stock call.  call_steps is the stack of
\* check_stock frames, innermost last; call_args the number of offers on the
\* page; call_result the value the last finished call returned; call_pc is
\* "fresh" while the innermost call has not called itself and "resumed" once
\* a call it made has returned into in_stock (line 876).
\*   lines 439-441: retry > DEFAULT_MAX_ATC_TRIES -> return False, no page
\*   lines 444-714: the page is loaded, or the call returns False
\*   lines 718-903: the offer at idx is passed over, is carted (return True),
\*   or its legacy click fails and check_stock is called again; after the
\*   last offer the call returns in_stock
CheckStockFrame ==
    /\ call_pc \in {"fresh", "resumed"}
    /\ LET d     == Len(call_steps)
           top   == call_steps[d]
           below == SubSeq(call_steps, 1, d - 1)
           Return(v) ==
               /\ call_steps' = below
               /\ call_result' = v
               /\ call_pc' = IF d = 1 THEN "done" ELSE "resumed"
           held == IF call_pc = "resumed" THEN call_result ELSE FALSE
       IN  IF top.idx = 0
           THEN IF top.retry > DEFAULT_MAX_ATC_TRIES
                THEN Return(FALSE)
                ELSE \/ Return(FALSE)
                     \/ /\ call_steps' = Append(below, [top EXCEPT !.idx = 1])
                        /\ UNCHANGED <<call_result, call_pc>>
           ELSE IF top.idx > call_args
           THEN Return(held)
           ELSE \/ /\ call_steps' = Append(below, [top EXCEPT !.idx = @ + 1])
                   /\ UNCHANGED <<call_result, call_pc>>
                \/ Return(TRUE)
                \/ Return(FALSE)
                \/ /\ call_steps' =
                        Append(Append(below, [top EXCEPT !.idx = @ + 1]),
                               RetryCall(top.retry))
                   /\ call_pc' = "fresh"
                   /\ UNCHANGED call_result
    /\ UNCHANGED call_args
    /\ UNCHANGED <<stockVars, storeVars, runVars>>

\* no helper call is under study
CallIdle ==
    /\ call_args = <<>>
    /\ call_steps = <<>>
    /\ call_result = "None"
    /\ call_pc = "idle"

-----------------------------------------------------------------------------
(* Specifications *)

\* Amazon.run from the start of the hunt
Init == StockIdle /\ StoreIdle /\ RunStart /\ CallIdle
Next == NextRun
Spec == Init /\ [][Next]_vars

\* check_stock on a page with one offer, every facet of it free
InitOffer ==
    /\ offers \in {<<o>> : o \in OfferSet}
    /\ buy_box \in BOOLEAN
    /\ \E b \in {<<10000, 10000>>, <<9999, 10001>>, <<10000, 12000>>} :
         cs_reserve_min = b[1] /\ cs_reserve_max = b[2]
    /\ ListsAligned
    /\ StockStart /\ StoreIdle /\ RunIdle /\ CallIdle
SpecOffer == InitOffer /\ [][NextStock]_vars

\* check_stock on a page with several offers
InitStock ==
    /\ offers \in UNION {[1..n -> SmallOfferSet] : n \in 1..MaxOffers}
    /\ buy_box = FALSE
    /\ cs_reserve_min = 10000
    /\ cs_reserve_max = 12000
    /\ ListsAligned
    /\ StockStart /\ StoreIdle /\ RunIdle /\ CallIdle
SpecStock == InitStock /\ [][NextStock]_vars

\* the offers of a page whose four queries may disagree in length
ExtractOfferSet ==
    [seller : {<<"Amazon">>},
     has_price : {TRUE},
     price : {11000},
     ship : {0, 500},
     form : {"_new_", "_used_"},
     oid : {"ok"}]
    \cup
    [seller : {<<"Amazon">>}, has_price : {FALSE}, price : {0}, ship : {0},
     form : {"_new_"}, oid : {"ok"}]

\* check_stock on a page whose price, shipping and seller queries found
\* any number of nodes: the waits of lines 663-714 let it through once
\* prices and shipping_prices are not empty
InitExtract ==
    /\ offers \in UNION {[1..n -> ExtractOfferSet] : n \in 1..MaxOffers}
    /\ prices_len \in 1..MaxOffers
    /\ shipping_len \in 1..MaxOffers
    /\ sellers_len \in 0..MaxOffers
    /\ buy_box = FALSE
    /\ cs_reserve_min = 10000
    /\ cs_reserve_max = 12000
    /\ StockStart /\ StoreIdle /\ RunIdle /\ CallIdle
SpecExtract == InitExtract /\ [][NextStock]_vars

\* check_stock from its page-load loop on, on a page with several offers
InitLoad ==
    /\ offers \in UNION {[1..n -> SmallOfferSet] : n \in 1..MaxOffers}
    /\ buy_box = FALSE
    /\ cs_reserve_min = 10000
    /\ cs_reserve_max = 12000
    /\ LoadIdle
    /\ ShipIdle
    /\ CaptchaIdle
    /\ ListsAligned
    /\ check_shipping \in BOOLEAN
    /\ condition \in ConditionCaps
    /\ idx = 1
    /\ verdicts = <<>>
    /\ in_stock = FALSE
    /\ cs_pc = "load"
    /\ cs_result = FALSE
    /\ StoreIdle /\ RunIdle /\ CallIdle
SpecLoad == InitLoad /\ [][NextLoad]_vars

\* get_shipping_costs called on the markup of one offer
InitShip ==
    /\ ship_tree \in ShippingTrees
    /\ ship_cost = FREE_SHIPPING_PRICE
    /\ ship_pc = "call"
    /\ OffersIdle /\ CaptchaIdle /\ StoreIdle /\ RunIdle /\ CallIdle
SpecShip == InitShip /\ [][GetShippingCosts]_vars

\* find_qualified_seller called for one item of the hunt
InitQualify ==
    /\ fq_item \in FGItems
    /\ fq_sellers \in UNION {[1..n -> SellerDetails] : n \in 0..MaxSellers}
    /\ fq_check_shipping \in BOOLEAN
    /\ fq_result = <<>>
    /\ fq_purchase = <<>>
    /\ fq_pc = "call"
    /\ item_list = <<>>
    /\ st_pc = "idle"
    /\ st_pos = 1
    /\ group_id_to_remove = 0
    /\ list_before = <<>>
    /\ removed_group = 0
    /\ StockIdle /\ RunIdle /\ CallIdle
SpecQualify == InitQualify /\ [][FindQualifiedSeller]_vars

\* remove_asin_list called with any ASIN on any configured list
InitRemove ==
    /\ asin_list \in UNION {[1..n -> AsinGroupsOf(Asins)] : n \in 1..(MaxAsins + 1)}
    /\ reserve_min = [k \in 1..Len(asin_list) |-> EntryMin(k)]
    /\ reserve_max = [k \in 1..Len(asin_list) |-> EntryMax(k)]
    /\ asin \in Asins
    /\ pc = "remove"
    /\ alt_checkout = FALSE
    /\ single_shot = FALSE
    /\ testing = FALSE
    /\ try_to_checkout = FALSE
    /\ checkout_retry = 0
    /\ order_retry = 0
    /\ loop_iterations = 0
    /\ great_success = TRUE
    /\ bin_retry = 0
    /\ sold_by = "unset"
    /\ nav_calls = 0
    /\ order_placed = TRUE
    /\ removed_log = <<>>
    /\ notes = {}
    /\ StockIdle /\ StoreIdle /\ CallIdle
SpecRemove == InitRemove /\ [][RemoveAsinList]_vars

\* handle_captcha called on a captcha page
InitCaptcha ==
    /\ cap_wait \in BOOLEAN
    /\ cap_check_presence \in BOOLEAN
    /\ cap_detailed \in BOOLEAN
    /\ cap_page \in CaptchaPages
    /\ cap_result = "None"
    /\ cap_refreshes = 0
    /\ cap_waited = FALSE
    /\ cap_notes = {}
    /\ cap_pc = "call"
    /\ OffersIdle /\ ShipIdle /\ StoreIdle /\ RunIdle /\ CallIdle
SpecCaptcha == InitCaptcha /\ [][HandleCaptcha]_vars

\* AmazonStoreHandler.run from the start of the hunt
InitStore == StockIdle /\ StoreStart /\ RunIdle /\ CallIdle
SpecStore == InitStore /\ [][NextStore]_vars

\* navigate_pages called on a page with an unrecognised title
InitUnknown ==
    /\ call_args \in UnknownPages
    /\ call_steps = <<>>
    /\ call_result = "None"
    /\ call_pc = "call"
    /\ StockIdle /\ StoreIdle /\ RunIdle
SpecUnknown == InitUnknown /\ [][NavigateUnknown]_vars

\* Amazon.run from its home-page load on, with one ASIN to hunt, either
\* checkout mode, and the cart as the site shows it before and after login
InitStartup ==
    /\ StockIdle /\ StoreIdle
    /\ asin_list = <<<<1>>>>
    /\ reserve_min = <<ConfigMin(<<1>>)>>
    /\ reserve_max = <<ConfigMax(<<1>>)>>
    /\ alt_checkout \in BOOLEAN
    /\ single_shot \in BOOLEAN
    /\ testing \in BOOLEAN
    /\ pc = "startup"
    /\ asin = 0
    /\ try_to_checkout = FALSE
    /\ checkout_retry = 0
    /\ order_retry = 0
    /\ loop_iterations = 0
    /\ great_success = FALSE
    /\ bin_retry = 0
    /\ sold_by = "unset"
    /\ nav_calls = 0
    /\ order_placed = FALSE
    /\ removed_log = <<>>
    /\ notes = {}
    /\ call_args \in Startups
    /\ call_steps = <<>>
    /\ call_result = "None"
    /\ call_pc = "idle"
SpecStartup == InitStartup /\ [][RunStartup \/ NextRun]_vars

\* check_stock calls attempt_atc(offering_id) in alt-checkout mode
InitAtc ==
    /\ call_args = [max_atc_retries |-> DEFAULT_MAX_ATC_TRIES]
    /\ call_steps = [atc_attempts |-> 0, loads |-> 0, clicks |-> 0,
                     read |-> FALSE, cart |-> 0, notes |-> {}]
    /\ call_result = "None"
    /\ call_pc = "attempt_atc"
    /\ StockIdle /\ StoreIdle /\ RunIdle
SpecAtc == InitAtc /\ [][attempt_atc]_vars

\* verify called on the list parse_items built, with any item cache
InitVerify ==
    /\ call_args \in
          UNION {[items : {l}, item_cache : ItemCaches(Len(l))] :
                    l \in ParsedItems}
    /\ call_steps = <<>>
    /\ call_result = "None"
    /\ call_pc = "call"
    /\ StockIdle /\ StoreIdle /\ RunIdle
SpecVerify == InitVerify /\ [][Verify]_vars

\* navigate_pages called on a page that goes to a handler which knows of the
\* address button
InitAddress ==
    /\ call_args \in
          [handler : AddressHandlers \ {"unknown_title"}, page : AddressPages]
          \cup [handler : {"unknown_title"}, page : UnknownPages]
    /\ call_steps = <<>>
    /\ call_result = "None"
    /\ call_pc = "call"
    /\ StockIdle /\ StoreIdle /\ RunIdle
SpecAddress == InitAddress /\ [][NavigateAddress]_vars

\* load_asin_config called on a configuration file
InitConfig ==
    /\ call_args \in AsinConfigs
    /\ call_steps = <<>>
    /\ call_result = "None"
    /\ call_pc = "call"
    /\ StockIdle /\ StoreIdle /\ RunIdle
SpecConfig == InitConfig /\ [][LoadAsinConfig]_vars

\* from_str called on a label of up to MaxWords words
InitLabel ==
    /\ call_args \in UNION {LabelsOf(n) : n \in 1..MaxWords}
    /\ call_steps = <<>>
    /\ call_result = "None"
    /\ call_pc = "call"
    /\ StockIdle /\ StoreIdle /\ RunIdle
SpecLabel == InitLabel /\ [][FromStr]_vars

\* one hunt loop at the start of its first pass: AmazonStoreHandler.run on
\* its item list, or a call of Amazon.run_asins on asin_list
InitPass ==
    \/ /\ InitStore
       /\ item_list \in ItemListsUpTo(MaxAsins + 1)
    \/ /\ call_args \in ConfiguredAsinLists
       /\ call_steps = <<>>
       /\ call_result = 0
       /\ call_pc = "probe"
       /\ StockIdle /\ StoreIdle /\ RunIdle
NextPass == ScanItem \/ EndPass \/ RunAsinsProbe
SpecPass == InitPass /\ [][NextPass]_vars

\* two calls of run_asins on one asin_list, each with a cache of its own
InitNames ==
    /\ call_args \in ConfiguredAsinLists
    /\ call_result \in NameCaches(call_args) \X NameCaches(call_args)
    /\ call_steps = <<[checks |-> <<>>, names |-> call_result[1], ret |-> 0],
                      [checks |-> <<>>, names |-> call_result[2], ret |-> 0]>>
    /\ call_pc = "twice"
    /\ StockIdle /\ StoreIdle /\ RunIdle
SpecNames == InitNames /\ [][RunAsinsTwice]_vars

\* attempt_purchase called for a qualified seller, in a test or not
InitPurchase ==
    /\ call_args \in [path : {"attempt_purchase"}, testing : BOOLEAN]
    /\ call_steps = [now |-> 0, start_time |-> 0, keep_trying |-> TRUE,
                     found |-> FALSE, clicked |-> FALSE]
    /\ call_result = "None"
    /\ call_pc = "atc"
    /\ StockIdle /\ StoreIdle /\ RunIdle
SpecPurchase == InitPurchase /\ [][AttemptAtc \/ PlaceOrder]_vars

\* one purchase attempt, in a test or not, by each of the three ways there
\* are: attempt_purchase of AmazonStoreHandler, buy_it_now, and
\* handle_checkout of the alt-checkout navigator
InitAttempt ==
    /\ \/ /\ call_args \in [path : {"attempt_purchase"}, testing : BOOLEAN]
          /\ call_steps = [now |-> 0, start_time |-> 0, keep_trying |-> TRUE,
                           found |-> FALSE, clicked |-> FALSE]
          /\ call_pc = "atc"
       \/ /\ call_args \in [path : {"buy_it_now"}, testing : BOOLEAN]
          /\ call_steps = [retry |-> 0, sold_by |-> "unset", seen |-> "unread",
                           click |-> "none", found |-> FALSE, clicked |-> FALSE]
          /\ call_pc = "buy_it_now"
       \/ /\ call_args \in [path : {"handle_checkout"}, testing : BOOLEAN]
          /\ call_steps = [order_retry |-> 0, found |-> FALSE, clicked |-> FALSE]
          /\ call_pc = "handle_checkout"
    /\ call_result = "None"
    /\ StockIdle /\ StoreIdle /\ RunIdle
NextAttempt == AttemptAtc \/ PlaceOrder \/ BuyItNowCall \/ HandleCheckoutCall
SpecAttempt == InitAttempt /\ [][NextAttempt]_vars

\* run_asins calls check_stock (retry = 0) on a page of one or two offers;
\* the program takes every step it can
InitRetry ==
    /\ call_args \in {1, 2}
    /\ call_steps = <<[retry |-> 0, idx |-> 0]>>
    /\ call_result = FALSE
    /\ call_pc = "fresh"
    /\ StockIdle /\ StoreIdle /\ RunIdle
SpecRetry ==
    /\ InitRetry
    /\ [][CheckStockFrame]_vars
    /\ WF_vars(CheckStockFrame)

\* either handler, started on a configuration of at most MaxAsins ASINs:
\* Amazon.run or AmazonStoreHandler.run
InitHunt ==
    \/ Init
    \/ /\ InitStore
       /\ item_list \in ItemListsUpTo(MaxAsins)
NextHunt == NextRun \/ NextStore
SpecHunt == InitHunt /\ [][NextHunt]_vars

\* Amazon.run in alt-checkout mode with one ASIN to hunt, the program taking
\* every step it can.  The user and the site owe it nothing: no fairness is
\* assumed of TwoFactorEntered.
InitLive ==
    /\ StockIdle /\ StoreIdle /\ RunStart /\ CallIdle
    /\ alt_checkout
    /\ Len(asin_list) = 1 /\ Len(asin_list[1]) = 1
NextLive ==
    \/ RunAsinsCheck
    \/ NavigatePages
    \/ NavigateStale
    \/ LoginHolds
    \/ TwoFactorEntered
SpecLive ==
    /\ InitLive
    /\ [][NextLive]_vars
    /\ WF_vars(RunAsinsCheck \/ NavigatePages \/ NavigateStale \/ LoginHolds)

-----------------------------------------------------------------------------
(* Properties of Amazon.check_stock                                         *)

\* the first-party list, by full seller name
AllowedSellers == {<<"Amazon">>, <<"Amazon.com">>, <<"Amazon", "Resale">>}

\* offers[i] passes the shipping, condition, price-range and seller filters
\* as they are stated: free shipping unless shipping is allowed, condition no
\* worse than the cap, total within a cent of [min, max], seller on the list
PassesAllFilters(i) ==
    LET o == offers[i] IN
    /\ check_shipping \/ o.ship = 0
    /\ buy_box \/ o.form = "none" \/ get_item_condition(o.form) <= condition
    /\ o.has_price
    /\ cs_reserve_min - 1 <= o.price + o.ship
    /\ o.price + o.ship <= cs_reserve_max + 1
    /\ o.seller \in AllowedSellers

\* the offers the loop has decided on so far
Evaluated == DOMAIN verdicts

\* C2: when check_stock has returned, the purchase was initiated for the first
\* offer in display order that passes all four filters and for no offer before
\* it, and when no offer passes them no purchase was initiated
C2_FirstMatch ==
    cs_pc = "returned" =>
        LET passing == {i \in DOMAIN offers : PassesAllFilters(i)} IN
        IF passing = {}
        THEN \A i \in Evaluated : verdicts[i] # "qualified"
        ELSE LET f == CHOOSE i \in passing : \A k \in passing : i <= k
             IN  /\ f \in Evaluated
                 /\ verdicts[f] = "qualified"
                 /\ \A i \in 1..(f - 1) : verdicts[i] # "qualified"

\* C3: an offer selected for purchase is sold by a seller whose full name is
\* on the first-party list
C3_SellerAllowList ==
    \A i \in Evaluated :
        verdicts[i] = "qualified" => offers[i].seller \in AllowedSellers

\* C4: an offer that reaches the price test with an accepted seller is
\* selected exactly when its total is within 0.01 of the range [min, max]
C4_EpsilonRange ==
    \A i \in Evaluated :
        LET o == offers[i]
            total == o.price + o.ship
        IN  (/\ verdicts[i] \notin {"shipping", "condition", "no_price"}
             /\ SellerAccepted(SellerName(o)))
            => (verdicts[i] = "qualified"
                <=> (cs_reserve_min - 1 <= total /\ total <= cs_reserve_max + 1))

\* C5: with check_shipping off no selected offer has a shipping cost, and an
\* offer that ships for free is never turned away for shipping: what is
\* decided for it is what would be decided in the other shipping mode
C5_ShippingFilter ==
    \A i \in Evaluated :
        LET o == offers[i] IN
        /\ (~check_shipping /\ verdicts[i] = "qualified") => o.ship = 0
        /\ o.ship = 0 =>
             /\ free_shipping_check(o.ship)
             /\ verdicts[i] # "shipping"
             /\ verdicts[i] = EvalOffer(o, ~check_shipping, buy_box, condition,
                                        cs_reserve_min, cs_reserve_max)

\* C5 witness: in free-shipping-only mode a free offer was selected after an
\* offer with a shipping cost was skipped
C5_Witness ==
    /\ ~check_shipping
    /\ \E i, k \in Evaluated :
         /\ i < k
         /\ offers[i].ship > 0 /\ verdicts[i] = "shipping"
         /\ offers[k].ship = 0 /\ verdicts[k] = "qualified"

\* the values of the conditions
ConditionValues ==
    {AmazonItemCondition.New, AmazonItemCondition.Renewed,
     AmazonItemCondition.Rental, AmazonItemCondition.Open_box,
     AmazonItemCondition.UsedVeryGood, AmazonItemCondition.UsedGood,
     AmazonItemCondition.UsedAcceptable, AmazonItemCondition.Unknown}

\* C6: an offer whose condition is checked is turned away exactly when its
\* value is above the cap, an Unknown condition is always turned away, and
\* the comparison admits 50 and 60 and rejects 70 under the cap 60
C6_ConditionFilter ==
    /\ \A i \in Evaluated :
         LET o == offers[i]
             v == get_item_condition(o.form)
         IN  (verdicts[i] # "shipping" /\ ~buy_box /\ o.form # "none") =>
                /\ verdicts[i] # "condition" <=> v <= condition
                /\ v = AmazonItemCondition.Unknown => verdicts[i] = "condition"
    /\ \A v \in ConditionValues, cap \in ConditionValues :
         ~ConditionBelowStandard(v, cap) <=> v <= cap
    /\ ~ConditionBelowStandard(AmazonItemCondition.UsedVeryGood,
                               AmazonItemCondition.UsedGood)
    /\ ~ConditionBelowStandard(AmazonItemCondition.UsedGood,
                               AmazonItemCondition.UsedGood)
    /\ ConditionBelowStandard(AmazonItemCondition.UsedAcceptable,
                              AmazonItemCondition.UsedGood)
    /\ \A cap \in ConditionValues \ {AmazonItemCondition.Unknown} :
         ConditionBelowStandard(AmazonItemCondition.Unknown, cap)

\* C6 witness: under the cap UsedAcceptable a used offer passed the condition
\* check, and so did an offer exactly at the cap New
C6_Witness ==
    \E i \in Evaluated :
        /\ ~buy_box
        /\ verdicts[i] \notin {"shipping", "condition"}
        /\ \/ /\ offers[i].form = "_used_"
              /\ condition = AmazonItemCondition.UsedAcceptable
           \/ /\ offers[i].form = "_new_"
              /\ condition = AmazonItemCondition.New

-----------------------------------------------------------------------------
(* Properties of AmazonStoreHandler.run                                     *)

\* C1: after the removal step that follows a purchase in group G, item_list
\* holds no item of group G and still holds every item of the other groups
\* that it held before the step
C1_GroupRemoval ==
    removed_group # 0 =>
        /\ \A i \in DOMAIN item_list : item_list[i].group_id # removed_group
        /\ \A k \in DOMAIN list_before :
             list_before[k].group_id # removed_group =>
                \E i \in DOMAIN item_list : item_list[i] = list_before[k]

-----------------------------------------------------------------------------
(* Properties of Amazon.run                                                 *)

\* a navigate_pages call of the checkout loop is about to be made or is held
InCheckoutLoop == pc \in {"checkout", "twofa"}

\* group g of list al has the bounds its configuration entry gave it
BoundsAsConfigured(al, rmin, rmax, g) ==
    /\ g \in DOMAIN al /\ g \in DOMAIN rmin /\ g \in DOMAIN rmax
    /\ rmin[g] = ConfigMin(al[g])
    /\ rmax[g] = ConfigMax(al[g])

\* C7: a loop iteration that leaves checkout_retry above DEFAULT_MAX_PTC_TRIES
\* or order_retry above DEFAULT_MAX_PYO_TRIES ends the checkout loop without
\* raising, leaves asin_list and both bound lists as they were, with the
\* attempted ASIN's group in them under its configured bounds, and hands
\* control back to run_asins
C7_RetryBounds ==
    [][(/\ InCheckoutLoop
        /\ \/ checkout_retry' > DEFAULT_MAX_PTC_TRIES
           \/ order_retry' > DEFAULT_MAX_PYO_TRIES)
       => /\ pc' = "run_asins"
          /\ ~try_to_checkout'
          /\ asin_list' = asin_list
          /\ reserve_min' = reserve_min
          /\ reserve_max' = reserve_max
          /\ asin' \in HuntedAsins(asin_list')
          /\ BoundsAsConfigured(asin_list', reserve_min', reserve_max',
                                GroupIndex(asin_list', asin'))]_vars

\* C7 witness: the loop was left over checkout_retry, the hunt goes on and
\* the attempted ASIN is still hunted
C7_Witness ==
    /\ checkout_retry > DEFAULT_MAX_PTC_TRIES
    /\ order_retry <= DEFAULT_MAX_PYO_TRIES
    /\ pc = "run_asins"
    /\ asin \in HuntedAsins(asin_list)

\* C8: one purchase attempt begins at most DEFAULT_MAX_CHECKOUT_LOOPS + 1
\* navigate_pages calls, and a checkout loop that was entered is left
C8_HardCap ==
    /\ [](nav_calls <= DEFAULT_MAX_CHECKOUT_LOOPS + 1)
    /\ (InCheckoutLoop ~> ~InCheckoutLoop)

\* the part of C8 about the number of calls, on its own
C8_CallCap ==
    /\ nav_calls <= DEFAULT_MAX_CHECKOUT_LOOPS + 1
    /\ pc = "checkout" => nav_calls <= DEFAULT_MAX_CHECKOUT_LOOPS

\* the last removal from asin_list
LastRemoval == removed_log[Len(removed_log)]

C10_RemovedOnlyWhenPurchased ==
    \A k \in DOMAIN removed_log : removed_log[k].ordered

-----------------------------------------------------------------------------
(* Properties of the page-load loop of Amazon.check_stock                   *)

\* the page-load loop is over
LoadLoopLeft == cs_pc # "load"

\* the recycle tore the driver down
DriverTornDown ==
    Len(recycle) >= 1 /\ recycle[1] = [call |-> "delete_driver", ended |-> "True"]

\* C11: a failed load below the DEFAULT_MAX_URL_FAIL-th is followed by one
\* delay and a retry; the loop makes at most DEFAULT_MAX_URL_FAIL load
\* attempts; at the DEFAULT_MAX_URL_FAIL-th failure the driver is torn down
\* and create_driver is run to its result; and after a recycle whose two
\* steps succeeded check_stock has returned False, no offer evaluated
C11_LoadFailure ==
    /\ load_attempts <= DEFAULT_MAX_URL_FAIL
    /\ fail_counter < DEFAULT_MAX_URL_FAIL => delays = fail_counter
    /\ fail_counter >= DEFAULT_MAX_URL_FAIL =>
         /\ delays = DEFAULT_MAX_URL_FAIL - 1
         /\ LoadLoopLeft
         /\ recycle # <<>>
         /\ recycle[1].call = "delete_driver"
         /\ DriverTornDown =>
              /\ Len(recycle) = 2
              /\ recycle[2].call = "create_driver"
              /\ recycle[2].ended \in {"True", "False"}
              /\ recycle[2].ended = "True" =>
                   /\ cs_pc = "returned"
                   /\ cs_result = FALSE
                   /\ verdicts = <<>>

\* one of the two steps of the recycle did not succeed
RecycleFailed ==
    /\ recycle # <<>>
    /\ recycle[Len(recycle)].ended # "True"

\* C12: when delete_driver or create_driver fails in the recycle, the
\* 'Bot Failed, please restart bot' notification was sent, check_stock has
\* raised RuntimeError and no offer was evaluated
C12_FatalSessionFailure ==
    RecycleFailed =>
        /\ "Bot Failed, please restart bot" \in cs_notes
        /\ cs_pc = "raised"
        /\ cs_error = "RuntimeError"
        /\ verdicts = <<>>

-----------------------------------------------------------------------------
(* Properties of the extraction in Amazon.check_stock                       *)

\* C13: a page whose seller, price, shipping and button lists differ in
\* length never makes check_stock raise: the offer whose facet is missing
\* is passed over as unusable and the loop goes on to its siblings
C13_NoRaiseOnMalformed ==
    /\ cs_pc # "raised"
    /\ cs_error = "none"
    /\ \A i \in 1..Len(verdicts) :
         (i > prices_len \/ i > shipping_len \/ i > sellers_len)
            => /\ verdicts[i] # "qualified"
               /\ (cs_pc = "returned" /\ i < Len(offers)) => Len(verdicts) > i

\* C14: an offer without a price value is disqualified, never bought as if
\* its price were 0, and the offers after it are still evaluated: the
\* check does not return at that offer while offers remain
C14_MissingPriceOneOffer ==
    \A i \in 1..Len(verdicts) :
        ~offers[i].has_price =>
            /\ verdicts[i] # "qualified"
            /\ (cs_pc = "returned" /\ i < Len(offers)) => Len(verdicts) > i

-----------------------------------------------------------------------------
(* Properties of the shipping parser                                        *)

\* no text of the tree holds a monetary amount
NoAmountInTree ==
    /\ parse_price(ship_tree.unified).amount = -1
    /\ parse_price(ship_tree.alt_text).amount = -1
    /\ \A i \in 1..Len(ship_tree.spans) :
         parse_price(ship_tree.spans[i]).amount = -1
    /\ \A i \in 1..Len(ship_tree.bs) : parse_price(ship_tree.bs[i]).amount = -1

\* C15: get_shipping_costs returns a price with an amount for every shape
\* of the offer subtree and never raises, and a subtree that holds no
\* monetary amount yields zero shipping
C15_ShippingTotal ==
    ship_pc # "call" =>
        /\ ship_pc \in {"idle", "done"}
        /\ ship_cost.amount >= 0
        /\ NoAmountInTree => ship_cost.amount = 0

-----------------------------------------------------------------------------
(* Properties of AmazonStoreHandler.find_qualified_seller                   *)

\* fq_sellers[i] passes the shipping, condition and price hurdles
PassesHurdles(i) ==
    /\ fq_check_shipping \/ free_shipping_check(fq_sellers[i].ship)
    /\ condition_check(fq_item, fq_sellers[i])
    /\ price_check(fq_item, fq_sellers[i])

\* C16: find_qualified_seller returns the first offer, in extraction order,
\* that passes every hurdle, and None only when no offer of the list passes
C16_FirstQualifiedSeller ==
    fq_pc = "done" =>
        IF \E i \in 1..Len(fq_sellers) : PassesHurdles(i)
        THEN LET first == CHOOSE i \in 1..Len(fq_sellers) :
                            /\ PassesHurdles(i)
                            /\ \A j \in 1..(i - 1) : ~PassesHurdles(j)
             IN  fq_result = <<fq_sellers[first]>>
        ELSE fq_result = <<>>

\* C17: find_qualified_seller never returns an offer of a seller outside
\* the first-party list, and attempt_purchase is never called with one
C17_HybridAllowList ==
    /\ \A i \in 1..Len(fq_result) : fq_result[i].name \in AllowedSellers
    /\ \A i \in 1..Len(fq_purchase) : fq_purchase[i].name \in AllowedSellers

-----------------------------------------------------------------------------
(* Properties of the working set of either handler                          *)

\* the ASINs the running handler still hunts
Tracked ==
    HuntedAsins(asin_list) \cup {item_list[i].id : i \in DOMAIN item_list}

\* C18: no step of either hunt loop adds an ASIN to the working set: the
\* set after a step is a subset of the set before it, so an ASIN that has
\* left the set is never in it again
C18_WorkingSetShrinks == [][Tracked' \subseteq Tracked]_vars

\* a group was taken off asin_list and the hunt goes on for the rest
C18_Witness ==
    /\ removed_log # <<>>
    /\ pc = "run_asins"
    /\ asin_list # <<>>
    /\ Tracked # HuntedAsins(removed_log[1].before)

-----------------------------------------------------------------------------
(* Properties of Amazon.remove_asin_list                                    *)

\* asin_list as remove_asin_list found it
ListBefore == removed_log[1].before

\* group k of the list before the call holds the ASIN and no earlier one does
FirstGroupWith(k) ==
    /\ k \in 1..Len(ListBefore)
    /\ asin \in Range(ListBefore[k])
    /\ \A j \in 1..(k - 1) : asin \notin Range(ListBefore[j])

\* position i of the three lists holds entry e of the configuration
HoldsEntry(i, e) ==
    /\ asin_list[i] = ListBefore[e]
    /\ reserve_min[i] = EntryMin(e)
    /\ reserve_max[i] = EntryMax(e)

-----------------------------------------------------------------------------
(* Properties of Amazon.handle_captcha                                      *)

\* handle_captcha has returned and the solver had answered "Not solved"
SolverFailed ==
    /\ cap_pc = "returned"
    /\ ~cap_check_presence \/ cap_page.form
    /\ cap_page.img
    /\ cap_page.solution = "Not solved"

\* C20: after a failed solve, without wait_on_captcha_fail the page was
\* refreshed; with it the handler waited for a title change and returned
\* True, or refreshed the page and returned False
C20_CaptchaFailedSolve ==
    SolverFailed =>
        IF ~cap_wait THEN cap_refreshes >= 1
        ELSE /\ cap_waited
             /\ \/ cap_result = "True" /\ cap_refreshes = 0
                \/ cap_result = "False" /\ cap_refreshes = 1

\* the positions of step x in the steps of the call
StepsAt(x) == {i \in 1..Len(call_steps) : call_steps[i] = x}

\* the steps of the call before position k
StepsBefore(k) == {call_steps[i] : i \in 1..(k - 1)}

C22_BoundedWaits == (pc = "twofa") ~> (pc # "twofa")

\* entry k of the configuration has its three required keys
WellFormed(k) ==
    LET item == call_args.itemList[k]
    IN  item.has_asins /\ item.has_min /\ item.has_max

\* C23: a configuration error stays with its entry.  When the file exists and
\* itemList has an entry, load_asin_config returns, and the hunt list holds
\* exactly the entries that have their three required keys, in order (an
\* entry whose minimum exceeds its maximum set aside).
C23_ItemScopedErrors ==
    (/\ call_pc = "done"
     /\ call_args.exists /\ call_args.has_list
     /\ Len(call_args.itemList) > 0
     /\ \A k \in 1..Len(call_args.itemList) :
           LET item == call_args.itemList[k]
           IN  item.max = 0 \/ item.min <= item.max)
    => /\ call_result.ended = "returned"
       /\ Range(call_result.asin_list) =
            {<<k>> : k \in {j \in 1..Len(call_args.itemList) : WellFormed(j)}}

\* C24: a startup that is abandoned over the configuration (no file, no
\* itemList, an empty itemList, a missing key, min > max) ends the process
\* with a status other than the one of a hunt that ran to exhaustion
C24_ExitStatus ==
    (call_pc = "done" /\ call_result.ended # "returned")
    => call_result.ended # ExhaustedStatus

IsWord(a) == a \in LabelWords

\* the member names a label spells out: the name itself, or its words with
\* whitespace or hyphens between them
SpelledOut(label) ==
    {m \in MemberNames :
        /\ "_" \notin Range(label)
        /\ label = m.atoms \/ Range(label) \cap {" ", "-"} # {}
        /\ SelectSeq(m.atoms, IsWord) = SelectSeq(label, IsWord)}

\* C25: from_str gives a label and the same label without whitespace and
\* hyphens the same result; a label that spells out a member name with spaces
\* or hyphens between the words (as "Open box" does) gives that member; and a
\* label that matches no member raises NotImplementedError, never a default.
C25_FromStrTolerant ==
    call_pc = "done" =>
        /\ call_result = from_str(CleanedLabel(call_args))
        /\ \A m \in SpelledOut(call_args) :
              call_result = [raised |-> "None", member |-> m.value]
        /\ call_result.raised \in {"None", "NotImplementedError"}
        /\ call_result.raised = "None" =>
              \E m \in MemberNames :
                  /\ SelectSeq(m.atoms, IsWord) = SelectSeq(call_args, IsWord)
                  /\ call_result.member = m.value

-----------------------------------------------------------------------------
(* Properties of a pass of either hunt loop                                 *)

\* the number of items of item_list the current pass of the hybrid handler
\* has called find_qualified_seller for
PassProbes ==
    IF st_pc = "pass_end" /\ group_id_to_remove # 0 THEN st_pos ELSE st_pos - 1

\* C26: when a pass ends, every item of the working set was probed in it
C26_PassCoverage ==
    /\ st_pc = "pass_end" => PassProbes = Len(item_list)
    /\ call_pc = "done" => Len(call_steps) = Len(PassOrder(call_args))

\* C26 as the loops have it: a pass probes the items in the list's order
\* without skipping one, and ends either after the last item or at the first
\* item that is bought (hybrid handler) or found in stock (run_asins); the
\* list is shuffled or shortened only between two passes.
C26_PassPrefix ==
    [][/\ item_list' # item_list => st_pc = "pass_end"
       /\ (st_pc = "scan" /\ st_pc' = "scan") => st_pos' = st_pos + 1
       /\ (st_pc = "scan" /\ st_pc' = "pass_end") =>
             \/ /\ group_id_to_remove' = item_list[st_pos].group_id
                /\ st_pos' = st_pos
             \/ /\ group_id_to_remove' = 0
                /\ st_pos' = Len(item_list) + 1
       /\ call_pc = "probe" =>
             /\ SubSeq(PassOrder(call_args), 1, Len(call_steps')) = call_steps'
             /\ Len(call_steps') = 1 =>
                   Len(call_steps) \in {0, Len(PassOrder(call_args))}
             /\ call_pc' = "done" =>
                   call_result' = call_steps'[Len(call_steps')]
      ]_vars

\* a pass of the hybrid handler ended at a purchase with items still unprobed
C26_Witness ==
    /\ st_pc = "pass_end"
    /\ group_id_to_remove # 0
    /\ PassProbes < Len(item_list)

-----------------------------------------------------------------------------
(* Properties of the navigator's retry counters                             *)

\* C28: checkout_retry and order_retry are 0 when a purchase attempt starts;
\* a navigate_pages call leaves each as it is or adds one to it; only
\* handle_cart adds to checkout_retry and only handle_checkout adds to
\* order_retry, and each does so exactly when it gives up (no button before
\* the timeout, or a click that failed); no other handler changes either.
\* The counters of the run change only as one of these calls says, or go
\* back to 0 at the start of the next attempt.
C28_RetryCounters ==
    [][/\ (pc = "checkout" /\ try_to_checkout) =>
             \A t \in Titles, shipping_bypass \in BOOLEAN :
                \A r \in navigate_pages(t, shipping_bypass, NavState) :
                   /\ r.cr \in {checkout_retry, checkout_retry + 1}
                   /\ r.orr \in {order_retry, order_retry + 1}
                   /\ r.cr # checkout_retry => t = "Cart" /\ r.try
                   /\ r.orr # order_retry => t = "Checkout" /\ r.try
       /\ (pc \notin {"checkout", "twofa"} /\ pc' = "checkout") =>
             checkout_retry' = 0 /\ order_retry' = 0
       /\ (pc \in {"checkout", "twofa"}) =>
             /\ checkout_retry' \in {checkout_retry, checkout_retry + 1}
             /\ order_retry' \in {order_retry, order_retry + 1}
             /\ checkout_retry' = checkout_retry
                   \/ order_retry' = order_retry
       /\ (pc \notin {"checkout", "twofa"} /\ pc' # "checkout") =>
             UNCHANGED <<checkout_retry, order_retry>>
      ]_vars

\* an attempt in which both counters were raised is still going on
C28_Witness ==
    /\ pc = "checkout"
    /\ try_to_checkout
    /\ checkout_retry > 0
    /\ order_retry > 0

-----------------------------------------------------------------------------
(* Properties of the page load of check_stock                               *)

\* C29: a load whose driver.get raised WebDriverException inside get_page
\* is counted in fail_counter, and check_stock is then either still in its
\* load loop or has gone through the driver recycle
C29_TransportFailureCounted ==
    "get_page: Failed to load page at url" \in cs_notes =>
        /\ fail_counter > 0
        /\ cs_pc = "load" \/ recycle # <<>>

-----------------------------------------------------------------------------
(* Properties of AmazonStoreHandler.attempt_purchase                        *)

\* the longest of the durations S
Longest(S) == CHOOSE x \in S : \A y \in S : y <= x

\* C30: attempt_purchase gives up once MAXIMUM_RETRY_TIME seconds have passed
\* since the attempt started: an attempt that is still retrying, in the
\* add-to-cart loop or in the place-order loop, started at most
\* MAXIMUM_RETRY_TIME seconds and one last turn of each loop ago
C30_BoundedAttempt ==
    call_pc \in {"atc", "place_order"} =>
        call_steps.now <= MAXIMUM_RETRY_TIME + Longest(AtcSeconds)
                            + Longest(PlaceOrderSeconds)

-----------------------------------------------------------------------------
(* Properties of the self-retry of check_stock                              *)

-----------------------------------------------------------------------------
(* Properties of a purchase attempt                                         *)

\* C32: in a test no Place Your Order button is clicked by attempt_purchase,
\* buy_it_now or handle_checkout, and once the button is found the attempt
\* is over
C32_TestPlacesNoOrder ==
    call_args.testing =>
        /\ ~call_steps.clicked
        /\ call_steps.found => call_pc = "done"

\* a test run of handle_checkout has found the button and ended the attempt
C32_Witness ==
    /\ call_args.testing
    /\ call_args.path = "handle_checkout"
    /\ call_steps.found
    /\ call_result = "Test Carted."

\* C34: a pass of buy_it_now calls place_order_button.click() only when the
\* seller text it read from the checkout page is a first-party seller; with
\* another seller, or no seller element, it does not click
C34_FirstPartyClickOnly ==
    (call_args.path = "buy_it_now" /\ call_steps.click # "none")
        => FirstPartySeller(call_steps.seen)

-----------------------------------------------------------------------------
(* Properties of the address selection                                      *)

\* the calls that look up or click an address-selection button
AddressSteps ==
    {"find_address_select", "click_address_select", "handle_shipping_page"}

\* C33: without shipping_bypass no handler looks up or clicks an
\* address-selection button, and navigate_pages on an address-selection title
\* runs the operator countdown and nothing else
C33_AddressSelectionOptIn ==
    (call_pc = "done" /\ ~call_args.page.shipping_bypass) =>
        /\ \A i \in DOMAIN call_steps : call_steps[i] \notin AddressSteps
        /\ call_args.handler = "address_title"
              => call_steps = <<"handle_unknown_title">>

\* handle_cart has run without shipping_bypass on a page that has an address
\* button and no Proceed-to-Checkout button
C33_Witness ==
    /\ call_pc = "done"
    /\ call_args.handler = "handle_cart"
    /\ ~call_args.page.shipping_bypass
    /\ ~call_args.page.button
    /\ call_args.page.address_button
    /\ call_steps # <<>>

-----------------------------------------------------------------------------
(* Properties of the start of Amazon.run                                    *)

\* C35: when the cart count is above 0 before the login, or after it, run
\* never reaches the hunt: no item is probed, navigate_pages is not called
\* and no order is placed
C35_NoHuntWithCart ==
    (call_args.cart_before > 0 \/ call_args.cart_after > 0) =>
        /\ pc \in {"startup", "returned", "exited"}
        /\ asin = 0
        /\ nav_calls = 0
        /\ ~order_placed

\* run has returned on the second reading of the cart, after the login
C35_Witness ==
    /\ pc = "returned"
    /\ call_args.cart_before = 0
    /\ call_args.cart_after > 0

-----------------------------------------------------------------------------
(* Properties of the single-shot hunt                                       *)

C37_ParallelLists ==
    /\ Len(reserve_min) = Len(asin_list)
    /\ Len(reserve_max) = Len(asin_list)
    /\ \A i \in DOMAIN asin_list :
          /\ reserve_min[i] = ConfigMin(asin_list[i])
          /\ reserve_max[i] = ConfigMax(asin_list[i])
          /\ reserve_min[i] <= reserve_max[i]

-----------------------------------------------------------------------------
(* Properties of AmazonStoreHandler.verify                                  *)

\* the configuration entry of this run that the item with ASIN a comes from
EntryOf(a) == call_args.items[a].bounds

\* C38: after verify, two items of item_list have the same group_id exactly
\* when they come from the same configuration entry of this run, items taken
\* from the cache included
C38_GroupIdentity ==
    call_pc = "done" =>
        \A i, j \in DOMAIN call_steps :
            (call_steps[i].group_id = call_steps[j].group_id)
                <=> (EntryOf(call_steps[i].id) = EntryOf(call_steps[j].id))

-----------------------------------------------------------------------------
(* Properties of Amazon.attempt_atc                                         *)

\* C39: attempt_atc loads the add-to-cart URL at most max_atc_retries times;
\* it returns True only when the latest pass clicked Continue and then read
\* a cart count of at least 1; in every other case it has sent "Maxed out on
\* ATC, moving on" and returned False
C39_AtcConfirmed ==
    /\ call_steps.loads <= call_args.max_atc_retries
    /\ call_pc = "done" =>
         IF call_steps.read /\ call_steps.cart >= 1
         THEN call_result = "returned True"
         ELSE /\ call_result = "returned False"
              /\ "Maxed out on ATC, moving on" \in call_steps.notes

=============================================================================
